---- MODULE Spec2Model ----
(***************************************************************************)
(* A model of the CHIP-8 interpreter of bulutcan99/chip8-emulator.         *)
(*                                                                         *)
(* The machine state is the CHIP8 struct owned by Emulator.  Arrays are    *)
(* kept in an exact, compact encoding: ram is the function from the        *)
(* addresses that hold a non-zero byte to that byte (every other address   *)
(* of 0..RAM_SIZE-1 holds 0), display is the set of lit pixel indices.     *)
(* Two equal array contents have one encoding, so nothing is abstracted.   *)
(* stack and v_reg are sequences: entry k of the array is element k + 1.   *)
(*                                                                         *)
(* Operations that return Result<_, Error> are operators returning a       *)
(* record [emu, err] with err = "Ok" on success; a Rust panic is the       *)
(* outcome err = "Panic" with the fields as they were when it was raised.  *)
(***************************************************************************)
EXTENDS Integers, Sequences, FiniteSets, TLC

\* ------------------------------------------------------------ constants
RAM_SIZE == 4096
STACK_SIZE == 16
NUM_REGS == 16
START_ADDR == 512
SCREEN_WIDTH == 64
SCREEN_HEIGHT == 32
\* 4096 (RAM size) - 512 (reserved RAM)
ROM_MAX == 3584

Byte == 0..255

HEX_DIGITS ==
  << 240, 144, 144, 144, 240,
      32,  96,  32,  32, 112,
     240,  16, 240, 128, 240,
     240,  16, 240,  16, 240,
     144, 144, 240,  16,  16,
     240, 128, 240,  16, 240,
     240, 128, 240, 144, 240,
     240,  16,  32,  64,  64,
     240, 144, 240, 144, 240,
     240, 144, 240,  16, 240,
     240, 144, 240, 144, 144,
     224, 144, 224, 144, 224,
     240, 128, 128, 128, 240,
     224, 144, 144, 144, 224,
     240, 128, 240, 128, 240,
     240, 128, 240, 128, 128 >>

\* ------------------------------------------------------------ bit utilities
RECURSIVE BitAnd(_, _)
BitAnd(a, b) ==
  IF a = 0 \/ b = 0 THEN 0
  ELSE (a % 2) * (b % 2) + 2 * BitAnd(a \div 2, b \div 2)

RECURSIVE BitOr(_, _)
BitOr(a, b) ==
  IF a = 0 THEN b
  ELSE IF b = 0 THEN a
  ELSE (IF a % 2 = 1 \/ b % 2 = 1 THEN 1 ELSE 0) + 2 * BitOr(a \div 2, b \div 2)

RECURSIVE BitXor(_, _)
BitXor(a, b) ==
  IF a = 0 THEN b
  ELSE IF b = 0 THEN a
  ELSE ((a + b) % 2) + 2 * BitXor(a \div 2, b \div 2)

\* BitManipulation
combine_nibbles_to_16bit_address(x, y, fourth_nibble) ==
  x * 256 + y * 16 + fourth_nibble

combine_bytes_to_16bit_instruction(first_byte, second_byte) ==
  first_byte * 256 + second_byte

\* a BCD helper whose tens digit is not reduced below ten
bcd_tuple_tens_unreduced(decimal) ==
  << decimal \div 100, decimal \div 10, decimal % 10 >>

convert_decimal_to_bcd_tuple(decimal) ==
  << decimal \div 100, (decimal % 100) \div 10, decimal % 10 >>

\* u8 arithmetic: (result, overflow)
overflowing_add(a, b) == [result |-> (a + b) % 256, overflow |-> a + b > 255]

overflowing_sub(a, b) == [result |-> (a - b + 256) % 256, overflow |-> a < b]

\* ------------------------------------------------------------ array encoding
RamAt(r, a) == IF a \in DOMAIN r THEN r[a] ELSE 0

RamPut(r, a, val) ==
  IF val = 0
    THEN [b \in (DOMAIN r) \ {a} |-> r[b]]
    ELSE [b \in (DOMAIN r) \cup {a} |-> IF b = a THEN val ELSE r[b]]

ZeroRam == [a \in {} |-> 0]

Ok(e) == [emu |-> e, err |-> "Ok"]

Fail(e, why) == [emu |-> e, err |-> why]

\* ------------------------------------------------------------ CHIP8
CHIP8_new ==
  [ ram |-> ZeroRam,
    stack |-> [k \in 1..STACK_SIZE |-> 0],
    v_reg |-> [k \in 1..NUM_REGS |-> 0],
    i_reg |-> 0,
    sp |-> 0,
    pc |-> START_ADDR,
    dt |-> 0,
    st |-> 0,
    display |-> {},
    keys |-> {} ]

\* CHIP8::reset: every field back to what CHIP8::new gives it
CHIP8_reset(c) ==
  [c EXCEPT
     !.ram = ZeroRam,
     !.stack = [k \in 1..STACK_SIZE |-> 0],
     !.v_reg = [k \in 1..NUM_REGS |-> 0],
     !.i_reg = 0,
     !.sp = 0,
     !.pc = START_ADDR,
     !.dt = 0,
     !.st = 0,
     !.display = {}]

\* ------------------------------------------------------------ Emulator
set_to_ram(e, index, val) ==
  IF index >= RAM_SIZE
    THEN Fail(e, "IndexOutOfBounds")
    ELSE Ok([e EXCEPT !.ram = RamPut(e.ram, index, val)])

\* get_ram()[index]: an index outside the array panics
ram_index_ok(index) == index < RAM_SIZE

get_v_ok(index) == index <= 15

get_v(e, index) == e.v_reg[index + 1]

set_v(e, index, val) ==
  IF index > 15
    THEN Fail(e, "IndexOutOfBounds")
    ELSE Ok([e EXCEPT !.v_reg[index + 1] = val])

\* set_dt that lets the timer tick as it is written
set_dt_ticked(e, val) == [e EXCEPT !.dt = IF val > 0 THEN val - 1 ELSE 0]

\* dec_dt without the `> 0` guard: a u8 that wraps
dec_dt_wrapping(e) == [e EXCEPT !.dt = (e.dt + 255) % 256]

set_dt(e, val) == [e EXCEPT !.dt = val]

dec_dt(e) == IF e.dt > 0 THEN [e EXCEPT !.dt = e.dt - 1] ELSE e

set_st(e, val) == [e EXCEPT !.st = val]

dec_st(e) == IF e.st > 0 THEN [e EXCEPT !.st = e.st - 1] ELSE e

dec_all_timers(e) == dec_st(dec_dt(e))

set_pc(e, val) == [e EXCEPT !.pc = val]

\* inc_pc_by that goes one byte too far
inc_pc_by_odd(e, val) == [e EXCEPT !.pc = e.pc + val + 1]

inc_pc_by(e, val) == [e EXCEPT !.pc = e.pc + val]

dec_pc_by(e, val) == IF e.pc > 0 THEN [e EXCEPT !.pc = e.pc - val] ELSE e

\* set_i that stores the address after the one it is given
set_i_next(e, val) == [e EXCEPT !.i_reg = val + 1]

set_i(e, val) == [e EXCEPT !.i_reg = val]

\* stack_pop that forgets `self.chip8.sp -= 1`
stack_pop_keep_sp(e) ==
  IF e.sp = 0
    THEN Fail(e, "StackUnderflow")
    ELSE Ok([e EXCEPT !.pc = e.stack[(e.sp - 1) + 1],
                      !.stack[(e.sp - 1) + 1] = 0])

\* stack_pop that forgets to load PC from the popped entry
stack_pop_no_pc(e) ==
  IF e.sp = 0
    THEN Fail(e, "StackUnderflow")
    ELSE Ok([e EXCEPT !.stack[(e.sp - 1) + 1] = 0,
                      !.sp = e.sp - 1])

\* stack_pop that leaves the popped entry in its slot
stack_pop_leaves_entry(e) ==
  IF e.sp = 0
    THEN Fail(e, "StackUnderflow")
    ELSE Ok([e EXCEPT !.pc = e.stack[(e.sp - 1) + 1],
                      !.sp = e.sp - 1])

stack_pop(e) ==
  IF e.sp = 0
    THEN Fail(e, "StackUnderflow")
    ELSE Ok([e EXCEPT !.pc = e.stack[(e.sp - 1) + 1],
                      !.stack[(e.sp - 1) + 1] = 0,
                      !.sp = e.sp - 1])

\* stack_push that writes the entry below the new top (one slot too low)
stack_push_below_top(e, new_pc_addr) ==
  IF e.sp >= STACK_SIZE
    THEN Fail(e, "StackOverflow")
    ELSE Ok([e EXCEPT !.sp = e.sp + 1,
                      !.stack[IF e.sp = 0 THEN 1 ELSE e.sp] = e.pc,
                      !.pc = new_pc_addr])

\* stack_push that increments sp before it checks for room
stack_push_counts_first(e, new_pc_addr) ==
  IF e.sp >= STACK_SIZE
    THEN Fail([e EXCEPT !.sp = e.sp + 1], "StackOverflow")
    ELSE Ok([e EXCEPT !.sp = e.sp + 1,
                      !.stack[((e.sp + 1) - 1) + 1] = e.pc,
                      !.pc = new_pc_addr])

stack_push(e, new_pc_addr) ==
  IF e.sp >= STACK_SIZE
    THEN Fail(e, "StackOverflow")
    ELSE Ok([e EXCEPT !.sp = e.sp + 1,
                      !.stack[((e.sp + 1) - 1) + 1] = e.pc,
                      !.pc = new_pc_addr])

\* the loop of load_hex_digits from index i on: ram[a] = HEX_DIGITS[a] for
\* every a from i to the end of the table
load_hex_from(e, i) ==
  [e EXCEPT !.ram =
     [b \in ((DOMAIN e.ram) \ (i..(Len(HEX_DIGITS) - 1)))
               \cup {a \in i..(Len(HEX_DIGITS) - 1) : HEX_DIGITS[a + 1] # 0} |->
        IF b \in i..(Len(HEX_DIGITS) - 1) THEN HEX_DIGITS[b + 1] ELSE e.ram[b]]]

load_hex_digits(e) ==
  IF Len(HEX_DIGITS) > RAM_SIZE
    THEN Fail(e, "HexDigitsExceedRam")
    ELSE Ok(load_hex_from(e, 0))

\* load_rom_file(path): the file is read, its length is checked, and that is
\* all: no byte of it is written to RAM
load_rom_file(e, file) ==
  IF ~file.readable THEN Fail(e, "RomUnreadable")
  ELSE IF Len(file.bytes) > ROM_MAX THEN Fail(e, "RomTooLarge")
  ELSE Ok(e)

\* init_ram: load_rom_file(rom_path)?; load_hex_digits()?
init_ram(e, file) ==
  IF load_rom_file(e, file).err # "Ok"
    THEN load_rom_file(e, file)
    ELSE load_hex_digits(e)

clear_screen(e) == [e EXCEPT !.display = {}]

is_key_pressed(e, idx) == idx \in e.keys

\* the lowest pressed key, or 16 for None
check_key_press(e) ==
  IF e.keys = {} THEN 16
  ELSE CHOOSE k \in e.keys : \A j \in e.keys : k <= j

\* ------------------------------------------------------------ Instruction
\* the result of Instruction::execute
Done(e, inc) == [emu |-> e, is_inc_pc |-> inc, err |-> "Ok"]

Abort(e, inc, why) == [emu |-> e, is_inc_pc |-> inc, err |-> why]

\* `emu.set_v(..)?` as the last effect of an arm
Finish(r, inc) == [emu |-> r.emu, is_inc_pc |-> inc, err |-> r.err]

\* the sprite bit of column abscissa in pixel_row: pixel_row & (0b1000_0000 >> abscissa)
sprite_bit(pixel_row, abscissa) == (pixel_row \div (2 ^ (7 - abscissa))) % 2 = 1

\* emu.get_i() + ordinate as u16: u16 addition, which panics on overflow when
\* overflow checks are compiled in (an index no array has: the read panics) and
\* wraps otherwise
row_addr(e, ordinate, chk) ==
  IF e.i_reg + ordinate > 65535
    THEN (IF chk THEN RAM_SIZE ELSE (e.i_reg + ordinate) % 65536)
    ELSE e.i_reg + ordinate

\* a draw that wraps neither coordinate
pixel_index_unwrapped(vx, vy, ordinate, abscissa) ==
  (vx + abscissa) + (vy + ordinate) * SCREEN_WIDTH

pixel_index(vx, vy, ordinate, abscissa) ==
  ((vx + abscissa) % SCREEN_WIDTH) + ((vy + ordinate) % SCREEN_HEIGHT) * SCREEN_WIDTH

\* emu.get_display()[index] on [bool; SCREEN_WIDTH * SCREEN_HEIGHT]: an index
\* past the array panics
display_index_ok(index) == index \in 0..(SCREEN_WIDTH * SCREEN_HEIGHT - 1)

\* some set sprite bit of the draw is looked up past the end of the display
display_overrun(e, vx, vy, rows, chk) ==
  \E ordinate \in 0..(rows - 1) : \E abscissa \in 0..7 :
    /\ sprite_bit(RamAt(e.ram, row_addr(e, ordinate, chk)), abscissa)
    /\ ~display_index_ok(pixel_index(vx, vy, ordinate, abscissa))

exec_drw(e, x, y, rows, inc, chk) ==
  IF ~(get_v_ok(x) /\ get_v_ok(y)) THEN Abort(e, inc, "IndexOutOfBounds")
  ELSE
    LET vx == get_v(e, x)
        vy == get_v(e, y)
        collision ==
          \E ordinate \in 0..(rows - 1) : \E abscissa \in 0..7 :
            /\ sprite_bit(RamAt(e.ram, row_addr(e, ordinate, chk)), abscissa)
            /\ pixel_index(vx, vy, ordinate, abscissa) \in e.display
    IN IF \/ \E ordinate \in 0..(rows - 1) : ~ram_index_ok(row_addr(e, ordinate, chk))
          \/ display_overrun(e, vx, vy, rows, chk)
         THEN Abort(e, inc, "Panic")
         \* emu.get_display()[index] ^= true toggles a copy: the display is not written
         ELSE Finish(set_v(e, 15, IF collision THEN 1 ELSE 0), inc)

RECURSIVE store_regs(_, _, _, _)
store_regs(e, i, index, x) ==
  IF index > x THEN Ok(e)
  ELSE IF ~get_v_ok(index) THEN Fail(e, "IndexOutOfBounds")
  ELSE LET r == set_to_ram(e, i + index, get_v(e, index))
       IN IF r.err # "Ok" THEN r ELSE store_regs(r.emu, i, index + 1, x)

RECURSIVE load_regs(_, _, _, _)
load_regs(e, i, idx, x) ==
  IF idx > x THEN Ok(e)
  ELSE IF ~ram_index_ok(i + idx) THEN Fail(e, "Panic")
  ELSE LET r == set_v(e, idx, RamAt(e.ram, i + idx))
       IN IF r.err # "Ok" THEN r ELSE load_regs(r.emu, i, idx + 1, x)

exec_ld_b(e, x, inc) ==
  IF ~get_v_ok(x) THEN Abort(e, inc, "IndexOutOfBounds")
  ELSE
    LET vx == get_v(e, x)
        hundreds == vx \div 100
        tens == (vx \div 10) % 10
        ones == vx % 10
        r1 == set_to_ram(e, e.i_reg, hundreds)
        r2 == set_to_ram(r1.emu, e.i_reg + 1, tens)
        r3 == set_to_ram(r2.emu, e.i_reg + 2, ones)
    IN IF r1.err # "Ok" THEN Finish(r1, inc)
       ELSE IF r2.err # "Ok" THEN Finish(r2, inc)
       ELSE Finish(r3, inc)

\* flag is written to VF first, then the result to VX
exec_flagged(e, x, flag, result, inc) ==
  LET r == set_v(e, 15, flag)
  IN IF r.err # "Ok" THEN Finish(r, inc) ELSE Finish(set_v(r.emu, x, result), inc)

skip_if(e, cond, inc) == Done(IF cond THEN inc_pc_by(e, 2) ELSE e, inc)

\* Instruction::execute(&self, emu, is_inc_pc); rnd is the byte the generator
\* returns, chk whether integer overflow checks are compiled in
execute(ins, e, inc, rnd, chk) ==
  LET x == ins.x
      y == ins.y
      byte == ins.byte
      addr == ins.addr
      xok == get_v_ok(x)
      xyok == get_v_ok(x) /\ get_v_ok(y)
      vx == get_v(e, x)
      vy == get_v(e, y)
      bad == Abort(e, inc, "IndexOutOfBounds")
  IN CASE ins.op = "Nop" -> Done(e, inc)
       [] ins.op = "Cls" -> Done(clear_screen(e), inc)
       [] ins.op = "Ret" -> Finish(stack_pop(e), inc)
       [] ins.op = "Jmp" -> Done(set_pc(e, addr), FALSE)
       [] ins.op = "Call" ->
            LET r == stack_push(e, e.pc)
            IN IF r.err # "Ok" THEN Finish(r, inc) ELSE Done(set_pc(r.emu, addr), FALSE)
       [] ins.op = "SeVx" -> IF ~xok THEN bad ELSE skip_if(e, vx = byte, inc)
       [] ins.op = "SneVx" -> IF ~xok THEN bad ELSE skip_if(e, vx # byte, inc)
       [] ins.op = "SeVxVy" -> IF ~xyok THEN bad ELSE skip_if(e, vx = vy, inc)
       [] ins.op = "LdVx" -> Finish(set_v(e, x, byte), inc)
       [] ins.op = "AddVx" ->
            IF ~xok THEN bad ELSE Finish(set_v(e, x, overflowing_add(vx, byte).result), inc)
       [] ins.op = "LdVxVy" -> IF ~get_v_ok(y) THEN bad ELSE Finish(set_v(e, x, vy), inc)
       [] ins.op = "OrVxVy" -> IF ~xyok THEN bad ELSE Finish(set_v(e, x, BitOr(vx, vy)), inc)
       [] ins.op = "AndVxVy" -> IF ~xyok THEN bad ELSE Finish(set_v(e, x, BitAnd(vx, vy)), inc)
       [] ins.op = "XorVxVy" -> IF ~xyok THEN bad ELSE Finish(set_v(e, x, BitXor(vx, vy)), inc)
       [] ins.op = "AddVxVy" ->
            IF ~xyok THEN bad
            ELSE LET a == overflowing_add(vx, vy)
                 IN exec_flagged(e, x, IF a.overflow THEN 1 ELSE 0, a.result, inc)
       [] ins.op = "SubVxVy" ->
            IF ~xyok THEN bad
            ELSE LET a == overflowing_sub(vx, vy)
                 IN exec_flagged(e, x, IF a.overflow THEN 0 ELSE 1, a.result, inc)
       [] ins.op = "ShrVx" ->
            IF ~xok THEN bad ELSE exec_flagged(e, x, vx % 2, vx \div 2, inc)
       [] ins.op = "SubnVxVy" ->
            IF ~xyok THEN bad
            ELSE LET a == overflowing_sub(vy, vx)
                 IN exec_flagged(e, x, IF a.overflow THEN 0 ELSE 1, a.result, inc)
       [] ins.op = "ShlVx" ->
            IF ~xok THEN bad ELSE exec_flagged(e, x, vx \div 128, (vx * 2) % 256, inc)
       [] ins.op = "SneVxVy" -> IF ~xyok THEN bad ELSE skip_if(e, vx # vy, inc)
       [] ins.op = "LdI" -> Done(set_i(e, addr), inc)
       [] ins.op = "JpV0" ->
            IF ~get_v_ok(0) THEN bad
            ELSE Done(set_pc(e, (addr + get_v(e, 0)) % 65536), inc)
       [] ins.op = "Rnd" -> Finish(set_v(e, x, BitAnd(rnd, byte)), inc)
       [] ins.op = "Drw" -> exec_drw(e, x, y, ins.n, inc, chk)
       [] ins.op = "SkpVx" ->
            IF ~xok THEN bad
            ELSE IF vx >= 16 THEN Abort(e, inc, "Panic")
            ELSE skip_if(e, is_key_pressed(e, vx), inc)
       [] ins.op = "SknpVx" ->
            IF ~xok THEN bad
            ELSE IF vx >= 16 THEN Abort(e, inc, "Panic")
            ELSE skip_if(e, ~is_key_pressed(e, vx), inc)
       [] ins.op = "LdVxDt" -> Finish(set_v(e, x, e.dt), inc)
       [] ins.op = "LdVxK" ->
            IF check_key_press(e) < 16
              THEN Finish(set_v(e, x, check_key_press(e)), inc)
              ELSE Done(dec_pc_by(e, 2), FALSE)
       [] ins.op = "LdDtVx" -> IF ~xok THEN bad ELSE Done(set_dt(e, vx), inc)
       [] ins.op = "LdStVx" -> IF ~xok THEN bad ELSE Done(set_st(e, vx), inc)
       [] ins.op = "AddIVx" ->
            IF ~xok THEN bad ELSE Done(set_i(e, (e.i_reg + vx) % 65536), inc)
       [] ins.op = "LdFVx" -> IF ~xok THEN bad ELSE Done(set_i(e, 5 * vx), inc)
       [] ins.op = "LdBVx" -> exec_ld_b(e, x, inc)
       [] ins.op = "LdIVx" -> Finish(store_regs(e, e.i_reg, 0, x), inc)
       [] ins.op = "LdVxI" -> Finish(load_regs(e, e.i_reg, 0, x), inc)
       [] OTHER -> Abort(e, inc, "Unsupported")

\* ------------------------------------------------------------ CpuController
\* the fields CpuController reads from self.word
first_byte(word) == word \div 256

second_byte(word) == word % 256

first_nibble(word) == word \div 4096

nibble_x(word) == (word \div 256) % 16

nibble_y(word) == (word \div 16) % 16

fourth_nibble(word) == word % 16

extract_12bit_address(word) ==
  combine_nibbles_to_16bit_address(nibble_x(word), nibble_y(word), fourth_nibble(word))

\* CpuController::new: the instruction bytes at PC, or no word (65536) when
\* they cannot be read
fetch_ok(e) == e.pc + 1 < RAM_SIZE

fetch_word(e) ==
  combine_bytes_to_16bit_instruction(RamAt(e.ram, e.pc), RamAt(e.ram, e.pc + 1))

\* the methods of the controller that executes on its own (cpu_controller.rs)
skip_next_instruction(e) == inc_pc_by(e, 2)

rollback_instruction(e) == dec_pc_by(e, 2)

no_operation(w, e) == Ok(e)

ctl_clear_screen(w, e) == Ok(clear_screen(e))

return_from_subroutine(w, e) == stack_pop(e)

jump_to_address(w, e) == Ok(set_pc(e, extract_12bit_address(w)))

call_address(w, e) ==
  LET r == stack_push(e, e.pc)
  IN IF r.err = "Ok" THEN Ok(set_pc(r.emu, extract_12bit_address(w))) ELSE r

skip_equal_vx_byte(w, e) ==
  LET x == nibble_x(w)
  IN IF ~get_v_ok(x) THEN Fail(e, "IndexOutOfBounds")
     ELSE Ok(IF get_v(e, x) = second_byte(w) THEN skip_next_instruction(e) ELSE e)

\* 4XNN that tests for equality, as 3XNN does
skip_not_equal_vx_byte_eq(w, e) ==
  LET x == nibble_x(w)
  IN IF ~get_v_ok(x) THEN Fail(e, "IndexOutOfBounds")
     ELSE Ok(IF get_v(e, x) = second_byte(w) THEN skip_next_instruction(e) ELSE e)

skip_not_equal_vx_byte(w, e) ==
  LET x == nibble_x(w)
  IN IF ~get_v_ok(x) THEN Fail(e, "IndexOutOfBounds")
     ELSE Ok(IF get_v(e, x) # second_byte(w) THEN skip_next_instruction(e) ELSE e)

\* let y = self.x();
skip_equal_vx_vy(w, e) ==
  LET x == nibble_x(w)
      y == nibble_x(w)
  IN IF ~(get_v_ok(x) /\ get_v_ok(y)) THEN Fail(e, "IndexOutOfBounds")
     ELSE Ok(IF get_v(e, x) = get_v(e, y) THEN skip_next_instruction(e) ELSE e)

load_vx_with_byte(w, e) == set_v(e, nibble_x(w), second_byte(w))

\* 7XNN that records the carry in VF before it writes VX
add_vx_with_byte_flagged(w, e) ==
  LET x == nibble_x(w)
      a == overflowing_add(get_v(e, x), second_byte(w))
      r == set_v(e, 15, IF a.overflow THEN 1 ELSE 0)
  IN IF ~get_v_ok(x) THEN Fail(e, "IndexOutOfBounds")
     ELSE set_v(r.emu, x, a.result)

add_vx_with_byte(w, e) ==
  LET x == nibble_x(w)
  IN IF ~get_v_ok(x) THEN Fail(e, "IndexOutOfBounds")
     ELSE set_v(e, x, (get_v(e, x) + second_byte(w)) % 256)

\* let y = self.x();
load_vx_with_vy(w, e) ==
  LET x == nibble_x(w)
      y == nibble_x(w)
  IN IF ~get_v_ok(y) THEN Fail(e, "IndexOutOfBounds") ELSE set_v(e, x, get_v(e, y))

load_vx_with_vx_or_vy(w, e) ==
  LET x == nibble_x(w)
      y == nibble_y(w)
  IN IF ~(get_v_ok(x) /\ get_v_ok(y)) THEN Fail(e, "IndexOutOfBounds")
     ELSE set_v(e, x, BitOr(get_v(e, x), get_v(e, y)))

load_vx_with_vx_and_vy(w, e) ==
  LET x == nibble_x(w)
      y == nibble_y(w)
  IN IF ~(get_v_ok(x) /\ get_v_ok(y)) THEN Fail(e, "IndexOutOfBounds")
     ELSE set_v(e, x, BitAnd(get_v(e, x), get_v(e, y)))

load_vx_with_vx_xor_vy(w, e) ==
  LET x == nibble_x(w)
      y == nibble_y(w)
  IN IF ~(get_v_ok(x) /\ get_v_ok(y)) THEN Fail(e, "IndexOutOfBounds")
     ELSE set_v(e, x, BitXor(get_v(e, x), get_v(e, y)))

\* VF is set from the flag, then VX from the result
ctl_flagged(e, x, flag, result) ==
  LET r == set_v(e, 15, flag)
  IN IF r.err # "Ok" THEN r ELSE set_v(r.emu, x, result)

\* 8XY4 with the two flag values exchanged
add_vx_with_vy_flag_swapped(w, e) ==
  LET x == nibble_x(w)
      y == nibble_y(w)
      a == overflowing_add(get_v(e, x), get_v(e, y))
  IN IF ~(get_v_ok(x) /\ get_v_ok(y)) THEN Fail(e, "IndexOutOfBounds")
     ELSE ctl_flagged(e, x, IF a.overflow THEN 0 ELSE 1, a.result)

add_vx_with_vy(w, e) ==
  LET x == nibble_x(w)
      y == nibble_y(w)
      a == overflowing_add(get_v(e, x), get_v(e, y))
  IN IF ~(get_v_ok(x) /\ get_v_ok(y)) THEN Fail(e, "IndexOutOfBounds")
     ELSE ctl_flagged(e, x, IF a.overflow THEN 1 ELSE 0, a.result)

\* 8XY5 that sets VF only when VX is strictly greater than VY
sub_vx_to_vy_strict(w, e) ==
  LET x == nibble_x(w)
      y == nibble_y(w)
      a == overflowing_sub(get_v(e, x), get_v(e, y))
  IN IF ~(get_v_ok(x) /\ get_v_ok(y)) THEN Fail(e, "IndexOutOfBounds")
     ELSE ctl_flagged(e, x, IF get_v(e, x) > get_v(e, y) THEN 1 ELSE 0, a.result)

sub_vx_to_vy(w, e) ==
  LET x == nibble_x(w)
      y == nibble_y(w)
      a == overflowing_sub(get_v(e, x), get_v(e, y))
  IN IF ~(get_v_ok(x) /\ get_v_ok(y)) THEN Fail(e, "IndexOutOfBounds")
     ELSE ctl_flagged(e, x, IF a.overflow THEN 0 ELSE 1, a.result)

shift_vx_to_right(w, e) ==
  LET x == nibble_x(w)
  IN IF ~get_v_ok(x) THEN Fail(e, "IndexOutOfBounds")
     ELSE ctl_flagged(e, x, get_v(e, x) % 2, get_v(e, x) \div 2)

minus_vx_from_vy(w, e) ==
  LET x == nibble_x(w)
      y == nibble_y(w)
      a == overflowing_sub(get_v(e, y), get_v(e, x))
  IN IF ~(get_v_ok(x) /\ get_v_ok(y)) THEN Fail(e, "IndexOutOfBounds")
     ELSE ctl_flagged(e, x, IF a.overflow THEN 0 ELSE 1, a.result)

shift_vx_to_left(w, e) ==
  LET x == nibble_x(w)
  IN IF ~get_v_ok(x) THEN Fail(e, "IndexOutOfBounds")
     ELSE ctl_flagged(e, x, get_v(e, x) \div 128, (get_v(e, x) * 2) % 256)

skip_not_equal_vx_vy(w, e) ==
  LET x == nibble_x(w)
      y == nibble_y(w)
  IN IF ~(get_v_ok(x) /\ get_v_ok(y)) THEN Fail(e, "IndexOutOfBounds")
     ELSE Ok(IF get_v(e, x) # get_v(e, y) THEN skip_next_instruction(e) ELSE e)

load_i_with_nnn(w, e) == Ok(set_i(e, extract_12bit_address(w)))

jump_to_address_plus_v0(w, e) ==
  IF ~get_v_ok(0) THEN Fail(e, "IndexOutOfBounds")
  ELSE Ok(set_pc(e, get_v(e, 0) + extract_12bit_address(w)))

load_vx_with_random_number(w, e, rnd) ==
  set_v(e, nibble_x(w), BitAnd(second_byte(w), rnd))

draw_sprite(w, e, chk) ==
  LET r == exec_drw(e, nibble_x(w), nibble_y(w), fourth_nibble(w), TRUE, chk)
  IN [emu |-> r.emu, err |-> r.err]

skip_by_key(w, e) ==
  LET x == nibble_x(w)
  IN IF ~get_v_ok(x) THEN Fail(e, "IndexOutOfBounds")
     ELSE IF get_v(e, x) >= 16 THEN Fail(e, "Panic")
     ELSE Ok(IF is_key_pressed(e, get_v(e, x)) THEN skip_next_instruction(e) ELSE e)

skip_by_not_key(w, e) ==
  LET x == nibble_x(w)
  IN IF ~get_v_ok(x) THEN Fail(e, "IndexOutOfBounds")
     ELSE IF get_v(e, x) >= 16 THEN Fail(e, "Panic")
     ELSE Ok(IF ~is_key_pressed(e, get_v(e, x)) THEN skip_next_instruction(e) ELSE e)

load_vx_with_dt(w, e) == set_v(e, nibble_x(w), e.dt)

\* loop { if let Some(key) = emu.check_key_press() { ..; break; } }: with no key
\* down the loop never ends
wait_for_key(w, e) ==
  IF check_key_press(e) < 16
    THEN set_v(e, nibble_x(w), check_key_press(e))
    ELSE Fail(e, "Hang")

\* the method of cpu_controller.rs that implements an opcode (named in the
\* comment above each method); FX15..FX65 have none
ctl_call(op, w, e, rnd, chk) ==
  CASE op = "Nop" -> no_operation(w, e)
    [] op = "Cls" -> ctl_clear_screen(w, e)
    [] op = "Ret" -> return_from_subroutine(w, e)
    [] op = "Jmp" -> jump_to_address(w, e)
    [] op = "Call" -> call_address(w, e)
    [] op = "SeVx" -> skip_equal_vx_byte(w, e)
    [] op = "SneVx" -> skip_not_equal_vx_byte(w, e)
    [] op = "SeVxVy" -> skip_equal_vx_vy(w, e)
    [] op = "LdVx" -> load_vx_with_byte(w, e)
    [] op = "AddVx" -> add_vx_with_byte(w, e)
    [] op = "LdVxVy" -> load_vx_with_vy(w, e)
    [] op = "OrVxVy" -> load_vx_with_vx_or_vy(w, e)
    [] op = "AndVxVy" -> load_vx_with_vx_and_vy(w, e)
    [] op = "XorVxVy" -> load_vx_with_vx_xor_vy(w, e)
    [] op = "AddVxVy" -> add_vx_with_vy(w, e)
    [] op = "SubVxVy" -> sub_vx_to_vy(w, e)
    [] op = "ShrVx" -> shift_vx_to_right(w, e)
    [] op = "SubnVxVy" -> minus_vx_from_vy(w, e)
    [] op = "ShlVx" -> shift_vx_to_left(w, e)
    [] op = "SneVxVy" -> skip_not_equal_vx_vy(w, e)
    [] op = "LdI" -> load_i_with_nnn(w, e)
    [] op = "JpV0" -> jump_to_address_plus_v0(w, e)
    [] op = "Rnd" -> load_vx_with_random_number(w, e, rnd)
    [] op = "Drw" -> draw_sprite(w, e, chk)
    [] op = "SkpVx" -> skip_by_key(w, e)
    [] op = "SknpVx" -> skip_by_not_key(w, e)
    [] op = "LdVxDt" -> load_vx_with_dt(w, e)
    [] op = "LdVxK" -> wait_for_key(w, e)
    [] OTHER -> Fail(e, "Unsupported")

\* the match of exec_instruction: the instruction a word selects
decode_op(w) ==
  LET n1 == first_nibble(w)
      n4 == fourth_nibble(w)
      byte == second_byte(w)
  IN CASE n1 = 0 -> (CASE w = 0 -> "Nop"
                       [] w = 224 -> "Cls"
                       [] w = 238 -> "Ret"
                       [] OTHER -> "Unsupported")
       [] n1 = 1 -> "Jmp"
       [] n1 = 2 -> "Call"
       [] n1 = 3 -> "SeVx"
       [] n1 = 4 -> "SneVx"
       [] n1 = 5 -> "SeVxVy"
       [] n1 = 6 -> "LdVx"
       [] n1 = 7 -> "AddVx"
       [] n1 = 8 -> (CASE n4 = 0 -> "LdVxVy"
                       [] n4 = 1 -> "OrVxVy"
                       [] n4 = 2 -> "AndVxVy"
                       [] n4 = 3 -> "XorVxVy"
                       [] n4 = 4 -> "AddVxVy"
                       [] n4 = 5 -> "SubVxVy"
                       [] n4 = 6 -> "ShrVx"
                       [] n4 = 7 -> "SubnVxVy"
                       [] n4 = 14 -> "ShlVx"
                       [] OTHER -> "Unsupported")
       [] n1 = 9 -> "SneVxVy"
       [] n1 = 10 -> "LdI"
       [] n1 = 11 -> "JpV0"
       [] n1 = 12 -> "Rnd"
       [] n1 = 13 -> "Drw"
       [] n1 = 14 -> (CASE byte = 158 -> "SkpVx"
                        [] byte = 161 -> "SknpVx"
                        [] OTHER -> "Unsupported")
       [] n1 = 15 -> (CASE byte = 7 -> "LdVxDt"
                        [] byte = 10 -> "LdVxK"
                        [] byte = 21 -> "LdDtVx"
                        [] byte = 24 -> "LdStVx"
                        [] byte = 30 -> "AddIVx"
                        [] byte = 41 -> "LdFVx"
                        [] byte = 51 -> "LdBVx"
                        [] byte = 85 -> "LdIVx"
                        [] byte = 101 -> "LdVxI"
                        [] OTHER -> "Unsupported")
       [] OTHER -> "Unsupported"

\* the instruction value exec_instruction builds from the word's fields
decode(w) ==
  [ op |-> decode_op(w),
    x |-> nibble_x(w),
    y |-> nibble_y(w),
    n |-> fourth_nibble(w),
    addr |-> extract_12bit_address(w),
    byte |-> second_byte(w) ]

\* Instruction::..(..).call(emulator)?: the executor behind the dispatcher is
\* Instruction::execute (instruction.rs) or the controller's own methods
\* (cpu_controller.rs)
call(w, e, inc, executor, rnd, chk) ==
  IF executor = "instruction"
    THEN execute(decode(w), e, inc, rnd, chk)
    ELSE Finish(ctl_call(decode_op(w), w, e, rnd, chk), inc)

\* the arms for 1NNN, 2NNN and BNNN clear is_inc_pc once the call has returned Ok
after_call(w, r) ==
  IF r.err # "Ok" THEN r
  ELSE IF first_nibble(w) \in {1, 2, 11} THEN [r EXCEPT !.is_inc_pc = FALSE]
  ELSE r

exec_instruction(w, e, inc, executor, rnd, chk) ==
  IF decode_op(w) = "Unsupported" THEN Abort(e, inc, "Unsupported")
  ELSE after_call(w, call(w, e, inc, executor, rnd, chk))

\* Emulator::inc_pc
inc_pc(e) == inc_pc_by(e, 2)

\* a fetch_exec that advances PC whether or not exec_instruction failed
advance_on_error(w, r) ==
  IF r.is_inc_pc THEN [emu |-> inc_pc(r.emu), word |-> w, err |-> r.err]
  ELSE [emu |-> r.emu, word |-> w, err |-> r.err]

\* if is_inc_pc { emulator.inc_pc(); } once exec_instruction has returned Ok
advance(w, r) ==
  IF r.err # "Ok" THEN [emu |-> r.emu, word |-> w, err |-> r.err]
  ELSE IF r.is_inc_pc THEN [emu |-> inc_pc(r.emu), word |-> w, err |-> "Ok"]
  ELSE [emu |-> r.emu, word |-> w, err |-> "Ok"]

\* fetch_exec after the fetch: execute, then advance PC unless told not to
exec_and_advance(w, e, executor, rnd, chk) ==
  advance(w, exec_instruction(w, e, TRUE, executor, rnd, chk))

\* ld_instruction: the word at PC, read as CpuController::new reads it
ld_instruction(w, e) == IF fetch_ok(e) THEN fetch_word(e) ELSE w

\* CpuController::fetch_exec
fetch_exec(w, e, executor, rnd, chk) ==
  IF ~fetch_ok(e)
    THEN [emu |-> e, word |-> w, err |-> "AddressOutOfBounds"]
    ELSE exec_and_advance(ld_instruction(w, e), e, executor, rnd, chk)

\* ------------------------------------------------------------ Environment
\* config/environment.rs.  An Environment is [variant, s]: s is the payload of
\* Any and empty for the unit variants.
DEFAULT_ENVIRONMENT == "development"

Production == [variant |-> "Production", s |-> ""]

Development == [variant |-> "Development", s |-> ""]

Test == [variant |-> "Test", s |-> ""]

\* Environment::Any(String)
Environment_Any(str) == [variant |-> "Any", s |-> str]

\* to_variant_name that gives the Rust name of the variant, not the serde name
to_variant_name_rust(e) == e.variant

\* serde_variant::to_variant_name: the #[serde(rename = ..)] of the variant
to_variant_name(e) ==
  CASE e.variant = "Production" -> "production"
    [] e.variant = "Development" -> "development"
    [] e.variant = "Test" -> "test"
    [] OTHER -> e.variant

\* impl FromStr: never Err
from_str(input) ==
  CASE input = "production" -> Production
    [] input = "development" -> Development
    [] input = "test" -> Test
    [] OTHER -> Environment_Any(input)

\* impl From<String>: from_str(&env).unwrap_or(Environment_Any(env))
from(env) == from_str(env)

\* impl Display
to_string(e) == IF e.variant = "Any" THEN e.s ELSE to_variant_name(e)

\* the name a process variable is kept under: as given where names are case
\* sensitive, in upper case where they are not
var_key(name, case_sensitive) ==
  IF case_sensitive THEN name
  ELSE IF name = "environment" THEN "ENVIRONMENT" ELSE name

\* std::env::set_var / remove_var / var on the variables vs
set_var(vs, name, value, cs) ==
  [k \in (DOMAIN vs) \cup {var_key(name, cs)} |->
     IF k = var_key(name, cs) THEN value ELSE vs[k]]

remove_var(vs, name, cs) == [k \in (DOMAIN vs) \ {var_key(name, cs)} |-> vs[k]]

var_is_set(vs, name, cs) == var_key(name, cs) \in DOMAIN vs

\* dotenv().ok(): the variables of the .env file that the process does not
\* have yet are added to it; no file, no change
dotenv(vs, file, cs) ==
  [k \in (DOMAIN vs) \cup {var_key(n, cs) : n \in DOMAIN file} |->
     IF k \in DOMAIN vs THEN vs[k]
     ELSE file[CHOOSE n \in DOMAIN file : var_key(n, cs) = k]]

\* env::var("ENVIRONMENT").unwrap_or_else(|_| DEFAULT_ENVIRONMENT.to_string())
env_var(vs, cs) ==
  IF var_is_set(vs, "ENVIRONMENT", cs) THEN vs[var_key("ENVIRONMENT", cs)]
  ELSE DEFAULT_ENVIRONMENT

\* Environment::from_env once dotenv has run
from_env(vs, cs) == from(env_var(vs, cs))

\* ------------------------------------------------------------ MemoryController
\* memory_controller.rs: the unchecked stack of the Memory-backed controller.
\* sp - 1 on a u8 of 0 panics (overflow check) or wraps to 255, an index the
\* 16-entry stack does not have: a panic in either build, before any write.
mc_stack_pop(m) ==
  IF m.sp = 0 \/ m.sp - 1 >= STACK_SIZE
    THEN Fail(m, "Panic")
    ELSE Ok([m EXCEPT !.pc = m.stack[(m.sp - 1) + 1],
                      !.stack[(m.sp - 1) + 1] = 0,
                      !.sp = m.sp - 1])

\* sp is incremented first; the write to stack[sp - 1] panics when sp - 1 is
\* no index of the stack
mc_stack_push(m, new_pc_addr) ==
  IF m.sp >= STACK_SIZE
    THEN Fail([m EXCEPT !.sp = m.sp + 1], "Panic")
    ELSE Ok([m EXCEPT !.sp = m.sp + 1,
                      !.stack[((m.sp + 1) - 1) + 1] = m.pc,
                      !.pc = new_pc_addr])

\* ------------------------------------------------------------ state
VARIABLES
  chip8,      \* the CHIP8 struct the Emulator owns
  word,       \* CpuController.word
  result,     \* what the last call returned: "Ok" or the error
  executor,   \* which executor the dispatcher calls
  phase,      \* "boot", "placed" (the host wrote RAM last) or "ran" (a call ran last)
  hist,       \* the last two calls, latest first: [word, pre, result]
  budget,     \* calls left to issue
  config,     \* CpuController: cycles_per_frame and the two quirk settings
  frame,      \* the frame loop: [stage, slot, count], slot the cycles run in this frame
  since,      \* DT and ST as last written, and the frames completed since then
  rom,        \* the file handed to init_ram: whether it can be read, and its bytes
  proc        \* the process: its environment variables, the Environment last built
              \* and the string it came from, the string last formatted

vars == << chip8, word, result, executor, phase, hist, budget, config, frame, since, rom, proc >>

\* ------------------------------------------------------------ bounds and inputs
MaxCallCycles == 2
MaxAluCycles == 1
MaxDrawCycles == 2
MaxFrames == 3
MaxResetCycles == 2
MaxFontCycles == 2
MaxBcdCycles == 1
MaxStoreCycles == 2
MaxRomCycles == 1
MaxSysCycles == 2
MaxPcCycles == 3
MaxKeyCycles == 1

Executors == {"instruction", "controller"}

\* a panic or an endless loop ends the session
Dead == {"Panic", "Hang"}

RndBytes == {0, 165, 255}

\* stack depths the runs start from: empty, one frame, one free slot, full
StackDepths == {0, 1, STACK_SIZE - 1, STACK_SIZE}

\* 0x206, 0x3A0, 0xFFE (the last address a word can be fetched from)
CallTargets == {518, 928, RAM_SIZE - 2}

\* NOP, RET, JP 0x206, CALL t
StackWords == {0, 238, 4096 + 518} \cup {8192 + t : t \in CallTargets}

\* register contents the runs start from
RegSamples == {0, 1, 128, 255}

\* what VF starts as
FlagSamples == {0, 255}

ByteSamples == {0, 1, 128, 255}

\* the registers the placed instructions name
RegNames == {0, 1, 15}

\* 3XNN, 4XNN, 5XY0, 9XY0
SkipWords ==
  {n1 * 4096 + x * 256 + nn : n1 \in {3, 4}, x \in RegNames, nn \in RegSamples}
  \cup {n1 * 4096 + x * 256 + y * 16 : n1 \in {5, 9}, x \in RegNames, y \in RegNames}

\* 7XNN, 8XY4, 8XY5, 8XY7
AluWords ==
  {7 * 4096 + x * 256 + nn : x \in RegNames, nn \in ByteSamples}
  \cup {8 * 4096 + x * 256 + y * 16 + n4 : x \in RegNames, y \in RegNames, n4 \in {4, 5, 7}}

\* 8XY6, 8XYE, and 8FY4, 8FY5, 8FY7: the flag-producing instructions aimed at VF
FlagWords ==
  {8 * 4096 + x * 256 + y * 16 + n4 : x \in RegNames, y \in RegNames, n4 \in {6, 14}}
  \cup {8 * 4096 + 15 * 256 + y * 16 + n4 : y \in RegNames, n4 \in {4, 5, 7}}

\* BNNN for NNN = 0x000, 0x200, 0xF01, 0xFFF
JumpWords == {11 * 4096 + nnn : nnn \in {0, START_ADDR, 3841, RAM_SIZE - 1}}

\* where I points when a sprite is drawn: the glyphs 0 and 1, the zero bytes
\* after the font, the last byte of RAM
SpriteAddrs == {0, 5, 80, RAM_SIZE - 1}

\* D01N and D10N for N = 0, 1, 5
DrawWords ==
  {13 * 4096 + x * 256 + (1 - x) * 16 + n : x \in {0, 1}, n \in {0, 1, 5}}

\* LD DT, V0; LD ST, V0; LD V1, DT; LD V0, K
FrameWords == {15 * 4096 + 21, 15 * 4096 + 24, 15 * 4096 + 256 + 7, 15 * 4096 + 10}

\* JP 0x200
JumpToStart == 4096 + START_ADDR

\* two instructions and the jump back to the first
Programs == {<< w1, w2, JumpToStart >> : w1 \in FrameWords, w2 \in FrameWords}

\* the keypad as the host samples it: nothing down, or 3 and A down
KeySets == {{}, {3, 10}}

CyclesPerFrame == {1, 2}

TimerSamples == {0, 1, 2}

\* LD V1, 7; LD I, 0x123; CALL 0x206; LD DT, V0; LD ST, V0; DRW V0, V1, 1
ResetWords ==
  {6 * 4096 + 256 + 7, 10 * 4096 + 291, 2 * 4096 + 518,
   15 * 4096 + 21, 15 * 4096 + 24, 13 * 4096 + 16 + 1}

\* LD F, V0; LD F, V1; LD V0, [I]; LD V4, [I]
FontWords == {15 * 4096 + 41, 15 * 4096 + 256 + 41, 15 * 4096 + 101, 15 * 4096 + 4 * 256 + 101}

\* LD B, V0; LD B, V1; LD B, VF
BcdWords == {15 * 4096 + x * 256 + 51 : x \in RegNames}

\* where I points for FX33: into the font, 0x300, and the last three addresses
\* at which a first digit can be written
BcdAddrs == {0, 768, RAM_SIZE - 3, RAM_SIZE - 2, RAM_SIZE - 1}

\* LD [I], VX and LD VX, [I] for X = 0, 1, F
StoreWords == {15 * 4096 + x * 256 + b : x \in RegNames, b \in {85, 101}}

\* where I points for FX55 / FX65: the font, 0x300, the last byte of RAM
StoreAddrs == {0, 768, RAM_SIZE - 1}

\* no file has been handed to init_ram
NoRom == [readable |-> FALSE, bytes |-> << >>]

Filled(n) == [k \in 1..n |-> 171]

\* ROM images: empty, JP 0x200, three bytes, and the lengths around the limit
Roms == {<< >>, << 18, 0 >>, << 96, 10, 240 >>,
         Filled(ROM_MAX - 1), Filled(ROM_MAX), Filled(ROM_MAX + 1)}

RomFiles == {NoRom} \cup {[readable |-> TRUE, bytes |-> b] : b \in Roms}

\* what RAM holds at START_ADDR before the load: nothing, or a program
Preloaded == {<< >>} \cup {<< w, JumpToStart >> : w \in FrameWords}

\* NOP, CLS, RET and their neighbours 0x0001, 0x00E1, 0x00EF, 0x0123, 0x0FFF
SysWords == {0, 224, 238, 1, 225, 239, 291, 4095}

\* JP and CALL to 0x206 and to 0x207, RET, SE V0, 0, JP V0, 0x200, LD V0, K
PcWords ==
  {n1 * 4096 + t : n1 \in {1, 2}, t \in {518, 519}}
  \cup {238, 3 * 4096, 11 * 4096 + START_ADDR, 15 * 4096 + 10}

\* words next to the listed patterns: 5XYN and 9XYN for N = 0, 1, F; 8XYN for
\* N = 0, 8, F; EXNN for NN = 0x9E, 0x9F, 0x00; FXNN for NN = 0x07, 0x08, 0xFF
DecodeWords ==
  {n1 * 4096 + x * 256 + y * 16 + n : n1 \in {5, 9}, x \in {0, 1}, y \in {0, 1}, n \in {0, 1, 15}}
  \cup {8 * 4096 + 16 + n : n \in {0, 8, 15}}
  \cup {14 * 4096 + nn : nn \in {158, 159, 0}}
  \cup {15 * 4096 + nn : nn \in {7, 8, 255}}

\* 8XY0, 8XY1, 8XY2, 8XY3
LogicWords ==
  {8 * 4096 + x * 256 + y * 16 + n4 : x \in RegNames, y \in RegNames, n4 \in 0..3}

\* SKP and SKNP on V0 and on V1
KeyWords == {14 * 4096 + x * 256 + b : x \in {0, 1}, b \in {158, 161}}

\* key codes in the registers: keys 0, 3 and A, and 0x13, 0x1A, 0xFF above the keypad
KeyCodes == {0, 3, 10, 19, 26, 255}

\* strings handed to the conversions and stored in process variables
EnvStrings == {"production", "development", "test", "custom", "Production", ""}

\* the two spellings of the variable's name
EnvNames == {"environment", "ENVIRONMENT"}

NoVars == [k \in {} |-> ""]

\* the .env file: absent or empty, or naming an environment
DotenvFiles == {NoVars, [k \in {"ENVIRONMENT"} |-> "test"]}

\* a process that has built and formatted nothing
NoProc ==
  [ vars |-> NoVars, case_sensitive |-> TRUE, made |-> "nothing",
    input |-> "", env |-> Development, shown |-> "", set |-> << >> ]

\* ------------------------------------------------------------ initial states
\* Emulator::new(CHIP8::new())
Constructed == CHIP8_new

\* ... followed by init_ram: the ROM file is read and measured, the font is written
Booted == load_hex_digits(Constructed).emu

\* the call site of the k-th nested call of a chain of calls
CallSite(k) == START_ADDR + 16 * k

\* d nested calls deep: CALL at CallSite(k) went to CallSite(k + 1)
Nested(d) ==
  [Constructed EXCEPT
     !.sp = d,
     !.stack = [k \in 1..STACK_SIZE |-> IF k - 1 < d THEN CallSite(k - 1) ELSE 0],
     !.pc = CallSite(d)]

\* V0, V1 and VF loaded by 6XNN instructions, PC back at the start
WithRegs(a, b, f) ==
  [Constructed EXCEPT
     !.v_reg = [k \in 1..NUM_REGS |->
                  IF k - 1 = 0 THEN a ELSE IF k - 1 = 1 THEN b ELSE IF k - 1 = 15 THEN f ELSE 0]]

\* #[derive(Default)] on EmuSettings
EmuSettings_default ==
  [ cycles_per_frame |-> 0,
    bit_shift_instructions_use_vy |-> FALSE,
    store_read_instructions_change_i |-> FALSE ]

\* CpuController::new(emulator, cycles_per_frame, .., ..) on the machine e
StartWith(e, x, n, settings) ==
  /\ chip8 = e
  /\ word = fetch_word(e)
  /\ result = "Ok"
  /\ executor = x
  /\ phase = "boot"
  /\ hist = << >>
  /\ budget = n
  /\ config = settings
  /\ frame = [stage |-> "idle", slot |-> 0, count |-> 0]
  /\ since = [dt |-> e.dt, st |-> e.st, frames |-> 0]
  /\ rom = NoRom
  /\ proc = NoProc

Start(e, x, n) == StartWith(e, x, n, EmuSettings_default)

\* MemoryController::load_rom_file: unwrap() on a file that cannot be read and
\* panic! on one that is too long
mc_load_rom_file(m, file) ==
  IF ~file.readable THEN Fail(m, "Panic")
  ELSE IF Len(file.bytes) > ROM_MAX THEN Fail(m, "Panic")
  ELSE Ok(m)

mc_load_hex_digits(m) == load_hex_from(m, 0)

\* MemoryController::init_ram
mc_init_ram(m, file) ==
  IF mc_load_rom_file(m, file).err # "Ok"
    THEN mc_load_rom_file(m, file)
    ELSE Ok(mc_load_hex_digits(m))

\* ------------------------------------------------------------ actions
Remember(w, r) ==
  << [word |-> w, pre |-> chip8, result |-> r] >>
    \o (IF hist = << >> THEN << >> ELSE << hist[1] >>)

\* a call returned r: the new machine, the controller's word, the result
Returned(r) ==
  /\ chip8' = r.emu
  /\ word' = r.word
  /\ result' = r.err
  /\ hist' = Remember(r.word, r.err)
  /\ phase' = "ran"
  /\ budget' = budget - 1
  /\ UNCHANGED << executor, config, rom, proc >>

\* the host writes an instruction word at PC: two Emulator::set_to_ram calls
place_word(e, w) ==
  LET r1 == set_to_ram(e, e.pc, first_byte(w))
  IN IF r1.err # "Ok" THEN r1 ELSE set_to_ram(r1.emu, e.pc + 1, second_byte(w))

PlaceWord(w) ==
  /\ budget > 0
  /\ result \notin Dead
  /\ fetch_ok(chip8)
  /\ chip8' = place_word(chip8, w).emu
  /\ phase' = "placed"
  /\ UNCHANGED << word, result, executor, hist, budget, config, frame, since, rom, proc >>

\* one cycle: CpuController::fetch_exec
Cycle ==
  /\ budget > 0
  /\ result \notin Dead
  /\ \E rnd \in RndBytes, chk \in BOOLEAN :
       Returned(fetch_exec(word, chip8, executor, rnd, chk))
  /\ UNCHANGED << frame, since >>

McFinish(r) ==
  /\ Returned([emu |-> r.emu, word |-> word, err |-> r.err])
  /\ UNCHANGED << frame, since >>

\* MemoryController::stack_push called on the Memory the variables hold
McStackPush ==
  /\ budget > 0
  /\ result \notin Dead
  /\ \E a \in CallTargets : McFinish(mc_stack_push(chip8, a))

\* MemoryController::stack_pop
McStackPop ==
  /\ budget > 0
  /\ result \notin Dead
  /\ McFinish(mc_stack_pop(chip8))

\* ------------------------------------------------------------ specifications
\* calls and returns, from every starting depth
PlaceStack == \E w \in StackWords : PlaceWord(w)

Init == \E d \in StackDepths, x \in Executors : Start(Nested(d), x, MaxCallCycles)

Next == PlaceStack \/ Cycle

Spec == Init /\ [][Next]_vars

\* skips and arithmetic, from every sampled register file
InitRegs ==
  \E a \in RegSamples, b \in RegSamples, f \in FlagSamples, x \in Executors :
    Start(WithRegs(a, b, f), x, MaxAluCycles)

PlaceSkip == \E w \in SkipWords : PlaceWord(w)

NextSkip == PlaceSkip \/ Cycle

SpecSkip == InitRegs /\ [][NextSkip]_vars

PlaceAlu == \E w \in AluWords : PlaceWord(w)

NextAlu == PlaceAlu \/ Cycle

SpecAlu == InitRegs /\ [][NextAlu]_vars

\* words beside the listed opcode patterns, from every sampled register file
PlaceDecode == \E w \in DecodeWords : PlaceWord(w)

NextDecode == PlaceDecode \/ Cycle

SpecDecode == InitRegs /\ [][NextDecode]_vars

\* the register copy and the three logical instructions
PlaceLogic == \E w \in LogicWords : PlaceWord(w)

NextLogic == PlaceLogic \/ Cycle

SpecLogic == InitRegs /\ [][NextLogic]_vars

\* the flag-producing instructions, under either setting of the shift quirk
InitQuirk ==
  \E a \in RegSamples, b \in RegSamples, f \in FlagSamples, x \in Executors, q \in BOOLEAN :
    StartWith(WithRegs(a, b, f), x, MaxAluCycles,
              [EmuSettings_default EXCEPT !.bit_shift_instructions_use_vy = q])

PlaceFlag == \E w \in FlagWords : PlaceWord(w)

NextFlag == PlaceFlag \/ Cycle

SpecFlag == InitQuirk /\ [][NextFlag]_vars

\* jumps with offset, from every sampled V0
PlaceJump == \E w \in JumpWords : PlaceWord(w)

NextJump == PlaceJump \/ Cycle

SpecJump == InitRegs /\ [][NextJump]_vars

\* sprites drawn from the font, V0 and V1 the coordinates; the framebuffer
\* starts as CHIP8::new leaves it
DrawStart(a, b, i) ==
  [Booted EXCEPT !.v_reg = WithRegs(a, b, 0).v_reg, !.i_reg = i]

InitDraw ==
  \E a \in RegSamples, b \in RegSamples, i \in SpriteAddrs, x \in Executors :
    Start(DrawStart(a, b, i), x, MaxDrawCycles)

PlaceDraw == \E w \in DrawWords : PlaceWord(w)

NextDraw == PlaceDraw \/ Cycle

SpecDraw == InitDraw /\ [][NextDraw]_vars

\* ------------------------------------------------------------ the frame loop
\* the program written word by word from START_ADDR on (Emulator::set_to_ram)
RECURSIVE with_program(_, _, _)
with_program(e, prog, at) ==
  IF prog = << >> THEN e
  ELSE with_program(
         set_to_ram(set_to_ram(e, at, first_byte(Head(prog))).emu,
                    at + 1, second_byte(Head(prog))).emu,
         Tail(prog), at + 2)

InitFrame ==
  \E a \in TimerSamples, prog \in Programs, x \in Executors, n \in CyclesPerFrame :
    StartWith(with_program(WithRegs(a, 0, 0), prog, START_ADDR), x,
              MaxFrames * n,
              [EmuSettings_default EXCEPT !.cycles_per_frame = n])

\* the CPU sits on an FX0A that found no key in this frame
in_key_wait ==
  /\ frame.slot > 0
  /\ hist # << >>
  /\ decode(hist[1].word).op = "LdVxK"
  /\ hist[1].result = "Ok"
  /\ check_key_press(hist[1].pre) = 16

\* step 1 of a frame: the host's keypad is sampled
BeginFrame ==
  /\ frame.stage = "idle"
  /\ frame.count < MaxFrames
  /\ result \notin Dead
  /\ \E ks \in KeySets : chip8' = [chip8 EXCEPT !.keys = ks]
  /\ frame' = [frame EXCEPT !.stage = "cpu", !.slot = 0]
  /\ phase' = "keys"
  /\ UNCHANGED << word, result, executor, hist, budget, config, since, rom, proc >>

\* a cycle of the frame returned r
FrameReturned(r) ==
  /\ Returned(r)
  /\ frame' = [frame EXCEPT !.slot = frame.slot + 1]
  /\ since' = IF r.emu.dt # chip8.dt \/ r.emu.st # chip8.st
                THEN [dt |-> r.emu.dt, st |-> r.emu.st, frames |-> 0]
                ELSE since

\* step 2: up to cycles_per_frame cycles, none after an error, none while the
\* CPU waits for a key
FrameCycle ==
  /\ frame.stage = "cpu"
  /\ frame.slot < config.cycles_per_frame
  /\ result = "Ok"
  /\ ~in_key_wait
  /\ \E rnd \in RndBytes, chk \in BOOLEAN :
       FrameReturned(fetch_exec(word, chip8, executor, rnd, chk))

\* step 3: the timers tick once, after the cycles of the frame
EndFrame ==
  /\ frame.stage = "cpu"
  /\ result \notin Dead
  /\ frame.slot = config.cycles_per_frame \/ result # "Ok" \/ in_key_wait
  /\ chip8' = dec_all_timers(chip8)
  /\ frame' = [stage |-> "idle", slot |-> 0, count |-> frame.count + 1]
  /\ since' = [since EXCEPT !.frames = since.frames + 1]
  /\ phase' = "frame"
  /\ UNCHANGED << word, result, executor, hist, budget, config, rom, proc >>

NextFrame == BeginFrame \/ FrameCycle \/ EndFrame

SpecFrame == InitFrame /\ [][NextFrame]_vars

\* LD DT, V0, then an instruction that fails (RET on the empty stack, 0x0001,
\* 0x8018) or succeeds (LD V1, 5), then the jump back
HaltPrograms ==
  {<< 15 * 4096 + 21, w2, JumpToStart >> : w2 \in {238, 1, 8 * 4096 + 16 + 8, 6 * 4096 + 256 + 5}}

InitHalt ==
  \E a \in TimerSamples, prog \in HaltPrograms, x \in Executors, n \in CyclesPerFrame :
    StartWith(with_program(WithRegs(a, 0, 0), prog, START_ADDR), x,
              MaxFrames * n,
              [EmuSettings_default EXCEPT !.cycles_per_frame = n])

SpecHalt == InitHalt /\ [][NextFrame]_vars

\* ------------------------------------------------------------ the key wait
\* the keys the host may press
WaitKeys == {3, 10}

\* LD V0, K at START_ADDR with nothing before it but zeroes, and LD V1, K at
\* 0x204 reached by a jump over the word before it; each is followed by a loop
WaitPrograms ==
  { << 15 * 4096 + 10, 4096 + START_ADDR + 2 >>,
    << 4096 + START_ADDR + 4, 4096 + START_ADDR + 2,
       15 * 4096 + 256 + 10, 4096 + START_ADDR + 6 >> }

InitWait ==
  \E a \in RegSamples, b \in ByteSamples, prog \in WaitPrograms, x \in Executors,
     ks \in {{}, {10}} :
    Start([with_program(WithRegs(a, b, 0), prog, START_ADDR) EXCEPT !.keys = ks], x, 0)

\* the host records a key going down; no key is released
PressKey ==
  /\ result \notin Dead
  /\ \E k \in WaitKeys \ chip8.keys : chip8' = [chip8 EXCEPT !.keys = chip8.keys \cup {k}]
  /\ phase' = "keys"
  /\ UNCHANGED << word, result, executor, hist, budget, config, frame, since, rom, proc >>

\* a cycle of an unbounded run returned r
WaitReturned(r) ==
  /\ chip8' = r.emu
  /\ word' = r.word
  /\ result' = r.err
  /\ hist' = Remember(r.word, r.err)
  /\ phase' = "ran"
  /\ UNCHANGED << executor, budget, config, frame, since, rom, proc >>

\* one more cycle, for as long as cycles succeed
WaitCycle ==
  /\ result = "Ok"
  /\ \E rnd \in RndBytes, chk \in BOOLEAN :
       WaitReturned(fetch_exec(word, chip8, executor, rnd, chk))

NextWait == PressKey \/ WaitCycle

SpecWait == InitWait /\ [][NextWait]_vars

\* cycles go on being issued, and a key the user holds down is recorded as
\* soon as the host gets to run
SpecWaitFair == SpecWait /\ WF_vars(WaitCycle) /\ WF_vars(PressKey)

\* ------------------------------------------------------------ reset
InitReset ==
  \E a \in RegSamples, e \in {Constructed, Booted}, x \in Executors :
    Start([e EXCEPT !.v_reg = WithRegs(a, 0, 0).v_reg], x, MaxResetCycles)

PlaceReset == \E w \in ResetWords : PlaceWord(w)

\* the host calls CHIP8::reset on the machine
Reset ==
  /\ phase # "reset"
  /\ result \notin Dead
  /\ chip8' = CHIP8_reset(chip8)
  /\ phase' = "reset"
  /\ UNCHANGED << word, result, executor, hist, budget, config, frame, since, rom, proc >>

NextReset == PlaceReset \/ Cycle \/ Reset

SpecReset == InitReset /\ [][NextReset]_vars

\* ------------------------------------------------------------ font
\* the font loaded, V0 and V1 holding any byte
InitFont ==
  \E a \in Byte, x \in Executors :
    Start([Booted EXCEPT !.v_reg = WithRegs(a, 255 - a, 0).v_reg], x, MaxFontCycles)

PlaceFont == \E w \in FontWords : PlaceWord(w)

NextFont == PlaceFont \/ Cycle

SpecFont == InitFont /\ [][NextFont]_vars

\* ------------------------------------------------------------ BCD
InitBcd ==
  \E a \in Byte, i \in BcdAddrs, x \in Executors :
    Start([Booted EXCEPT !.v_reg = WithRegs(a, 255 - a, 0).v_reg, !.i_reg = i],
          x, MaxBcdCycles)

PlaceBcd == \E w \in BcdWords : PlaceWord(w)

NextBcd == PlaceBcd \/ Cycle

SpecBcd == InitBcd /\ [][NextBcd]_vars

\* ------------------------------------------------------------ store and load
InitStore ==
  \E a \in RegSamples, b \in FlagSamples, i \in StoreAddrs,
     x \in Executors, q \in BOOLEAN :
    StartWith([Booted EXCEPT !.v_reg = WithRegs(a, b, 0).v_reg, !.i_reg = i],
              x, MaxStoreCycles,
              [EmuSettings_default EXCEPT !.store_read_instructions_change_i = q])

PlaceStore == \E w \in StoreWords : PlaceWord(w)

NextStore == PlaceStore \/ Cycle

SpecStore == InitStore /\ [][NextStore]_vars

\* ------------------------------------------------------------ ROM loading
InitRom ==
  \E prog \in Preloaded, x \in Executors :
    Start(with_program(Constructed, prog, START_ADDR), x, MaxRomCycles)

\* an init_ram call returned r for the file
Loaded(r, file, how) ==
  /\ chip8' = r.emu
  /\ result' = r.err
  /\ hist' = Remember(word, r.err)
  /\ rom' = file
  /\ phase' = how
  /\ UNCHANGED << word, executor, budget, config, frame, since, proc >>

\* Emulator::init_ram on a file
InitRam ==
  /\ phase = "boot"
  /\ \E file \in RomFiles : Loaded(init_ram(chip8, file), file, "loaded")

\* MemoryController::init_ram on a file
McInitRam ==
  /\ phase = "boot"
  /\ \E file \in RomFiles : Loaded(mc_init_ram(chip8, file), file, "mc_loaded")

\* the first cycle after a load that succeeded
RomCycle == phase \in {"loaded", "mc_loaded"} /\ result = "Ok" /\ Cycle

NextRom == InitRam \/ McInitRam \/ RomCycle

SpecRom == InitRom /\ [][NextRom]_vars

\* ------------------------------------------------------------ 0x0NNN
InitSys == \E d \in StackDepths, x \in Executors : Start(Nested(d), x, MaxSysCycles)

PlaceSys == \E w \in SysWords : PlaceWord(w)

NextSys == PlaceSys \/ Cycle

SpecSys == InitSys /\ [][NextSys]_vars

\* ------------------------------------------------------------ program counter
InitPc ==
  \E a \in TimerSamples, x \in Executors : Start(WithRegs(a, 0, 0), x, MaxPcCycles)

PlacePc == \E w \in PcWords : PlaceWord(w)

NextPc == PlacePc \/ Cycle

SpecPc == InitPc /\ [][NextPc]_vars

\* ------------------------------------------------------------ keypad
InitKey ==
  \E a \in KeyCodes, b \in KeyCodes, ks \in KeySets, x \in Executors :
    Start([WithRegs(a, b, 0) EXCEPT !.keys = ks], x, MaxKeyCycles)

PlaceKey == \E w \in KeyWords : PlaceWord(w)

NextKey == PlaceKey \/ Cycle

SpecKey == InitKey /\ [][NextKey]_vars

\* ------------------------------------------------------------ environment
\* a process on a platform whose variable names are case sensitive or not
InitEnv ==
  /\ \E cs \in BOOLEAN :
       proc = [NoProc EXCEPT !.case_sensitive = cs]
  /\ chip8 = Constructed
  /\ word = 0
  /\ result = "Ok"
  /\ executor = "none"
  /\ phase = "boot"
  /\ hist = << >>
  /\ budget = 0
  /\ config = EmuSettings_default
  /\ frame = [stage |-> "idle", slot |-> 0, count |-> 0]
  /\ since = [dt |-> 0, st |-> 0, frames |-> 0]
  /\ rom = NoRom

ProcStep ==
  UNCHANGED << chip8, word, result, executor, phase, hist, budget, config, frame, since, rom >>

\* env::set_var(name, value); set remembers the last call
SetVar ==
  /\ \E name \in EnvNames, value \in EnvStrings :
       proc' = [proc EXCEPT
                  !.vars = set_var(proc.vars, name, value, proc.case_sensitive),
                  !.set = << name, value >>,
                  !.made = "nothing"]
  /\ ProcStep

\* env::remove_var(name)
RemoveVar ==
  /\ \E name \in EnvNames :
       proc' = [proc EXCEPT
                  !.vars = remove_var(proc.vars, name, proc.case_sensitive),
                  !.set = << name >>,
                  !.made = "nothing"]
  /\ ProcStep

\* Environment::from_env() with the variables vs that dotenv left
FromEnvWith(vs) ==
  proc' = [proc EXCEPT
             !.vars = vs,
             !.input = env_var(vs, proc.case_sensitive),
             !.env = from_env(vs, proc.case_sensitive),
             !.made = "from_env"]

FromEnv ==
  /\ \E file \in DotenvFiles : FromEnvWith(dotenv(proc.vars, file, proc.case_sensitive))
  /\ ProcStep

\* let e: Environment = s.into()
Into ==
  /\ \E str \in EnvStrings :
       proc' = [proc EXCEPT !.input = str, !.env = from(str), !.made = "into"]
  /\ ProcStep

\* e.to_string() on the Environment last built
Display ==
  /\ proc.made \in {"into", "from_env"}
  /\ proc' = [proc EXCEPT !.shown = to_string(proc.env), !.made = "shown"]
  /\ ProcStep

NextEnv == SetVar \/ RemoveVar \/ FromEnv \/ Into \/ Display

SpecEnv == InitEnv /\ [][NextEnv]_vars

\* the Memory-backed controller's stack, called directly
InitMc == \E d \in StackDepths : Start(Nested(d), "none", MaxCallCycles + 1)

NextMc == McStackPush \/ McStackPop

SpecMc == InitMc /\ [][NextMc]_vars

\* ------------------------------------------------------------ properties
\* a call has just returned: chip8 is the machine it left, hist[1] names the
\* word it ran and the machine it ran on
Ran == phase = "ran" /\ hist # << >>

RanTwo == phase = "ran" /\ Len(hist) = 2

\* 00EE
RetWord == 14 * 16 + 14

IsCall(w) == first_nibble(w) = 2

\* the entry the stack pointer designates as the top
TopOfStack(e) == e.stack[(e.sp - 1) + 1]

\* C1: in every reachable state, whatever calls and returns ran or failed,
\* the stack pointer is between 0 and 16.
C1_SpInRange == chip8.sp \in 0..STACK_SIZE

\* C2: a CALL at A to NNN with SP < 16 followed at once by the RET at NNN
\* leaves PC at A + 2 and SP at the value it had before the CALL.
C2_CallThenRet ==
  (/\ RanTwo
   /\ IsCall(hist[2].word)
   /\ hist[2].pre.sp < STACK_SIZE
   /\ hist[1].word = RetWord)
  => /\ hist[2].result = "Ok"
     /\ hist[1].pre.pc = extract_12bit_address(hist[2].word)
     /\ result = "Ok"
     /\ chip8.pc = hist[2].pre.pc + 2
     /\ chip8.sp = hist[2].pre.sp

C2_Witness ==
  /\ RanTwo
  /\ hist[2].word = 8192 + 518
  /\ hist[2].pre.sp = STACK_SIZE - 1
  /\ hist[2].pre.pc = CallSite(STACK_SIZE - 1)
  /\ hist[1].word = RetWord
  /\ hist[1].pre.pc = 518
  /\ hist[1].pre.sp = STACK_SIZE
  /\ result = "Ok"

C5_StackErrorsLeaveState ==
  Ran =>
    /\ (IsCall(hist[1].word) /\ hist[1].pre.sp = STACK_SIZE)
         => /\ result = "StackOverflow"
            /\ chip8.sp = hist[1].pre.sp
            /\ chip8.stack = hist[1].pre.stack
            /\ chip8.pc = hist[1].pre.pc
    /\ (hist[1].word = RetWord /\ hist[1].pre.sp = 0)
         => /\ result = "StackUnderflow"
            /\ chip8.sp = hist[1].pre.sp
            /\ chip8.stack = hist[1].pre.stack
            /\ chip8.pc = hist[1].pre.pc

\* an overflowing CALL followed by an underflowing RET cannot share a run of
\* two cycles; the witness is the overflow, the underflow has its own
C5_Witness ==
  /\ Ran
  /\ IsCall(hist[1].word)
  /\ hist[1].pre.sp = STACK_SIZE
  /\ result = "StackOverflow"

C5_WitnessUnderflow ==
  /\ Ran
  /\ hist[1].word = RetWord
  /\ hist[1].pre.sp = 0
  /\ result = "StackUnderflow"

\* the sibling of a skip: 4XNN for 3XNN and back, 9XY0 for 5XY0 and back
Sibling(w) == IF first_nibble(w) \in {3, 5} THEN w + 4096 ELSE w - 4096

\* PC after the word w has been placed at PC of the machine e and one cycle run
PcAfter(w, e) == fetch_exec(w, place_word(e, w).emu, executor, 0, TRUE).emu.pc

\* C6: from the same state, 3XNN skips the next instruction (PC + 4) if and
\* only if 4XNN does not (PC + 2), for every register, content and byte.
C6_SkipSymmetry ==
  (Ran /\ first_nibble(hist[1].word) \in {3, 4})
  => /\ result = "Ok"
     /\ chip8.pc \in {hist[1].pre.pc + 2, hist[1].pre.pc + 4}
     /\ PcAfter(Sibling(hist[1].word), hist[1].pre)
          \in {hist[1].pre.pc + 2, hist[1].pre.pc + 4}
     /\ (chip8.pc = hist[1].pre.pc + 4)
          <=> (PcAfter(Sibling(hist[1].word), hist[1].pre) = hist[1].pre.pc + 2)
     /\ (chip8.pc = hist[1].pre.pc + 4)
          <=> (first_nibble(hist[1].word) = 3
                 <=> get_v(hist[1].pre, nibble_x(hist[1].word)) = second_byte(hist[1].word))

C6_Witness ==
  /\ Ran
  /\ hist[1].word = 3 * 4096 + 1 * 256 + 255
  /\ get_v(hist[1].pre, 1) = 255
  /\ chip8.pc = hist[1].pre.pc + 4
  /\ PcAfter(Sibling(hist[1].word), hist[1].pre) = hist[1].pre.pc + 2

\* C7: 5XY0 skips the next instruction iff VX = VY and 9XY0 iff VX # VY, the
\* second operand being the register the Y nibble names.
C7_ComparesVxWithVy ==
  (Ran /\ first_nibble(hist[1].word) \in {5, 9})
  => /\ result = "Ok"
     /\ chip8.pc \in {hist[1].pre.pc + 2, hist[1].pre.pc + 4}
     /\ (chip8.pc = hist[1].pre.pc + 4)
          <=> (first_nibble(hist[1].word) = 5
                 <=> get_v(hist[1].pre, nibble_x(hist[1].word))
                       = get_v(hist[1].pre, nibble_y(hist[1].word)))

\* C8: after 7XNN, VX is (old VX + NN) mod 256 and every other register,
\* VF included, is what it was.
C8_AddByteNoCarry ==
  (Ran /\ first_nibble(hist[1].word) = 7)
  => /\ result = "Ok"
     /\ chip8.v_reg =
          [hist[1].pre.v_reg EXCEPT ![nibble_x(hist[1].word) + 1] =
             (get_v(hist[1].pre, nibble_x(hist[1].word)) + second_byte(hist[1].word)) % 256]

C8_Witness ==
  /\ Ran
  /\ hist[1].word = 7 * 4096 + 0 * 256 + 128
  /\ get_v(hist[1].pre, 0) = 128
  /\ get_v(hist[1].pre, 15) = 0
  /\ get_v(chip8, 0) = 0

\* the operands of 8XYN as they were before the instruction
OldVx == get_v(hist[1].pre, nibble_x(hist[1].word))

OldVy == get_v(hist[1].pre, nibble_y(hist[1].word))

IsAlu(n4) ==
  /\ Ran
  /\ first_nibble(hist[1].word) = 8
  /\ fourth_nibble(hist[1].word) = n4
  /\ nibble_x(hist[1].word) # 15

\* C9: after 8XY4 with X # F, VX is (old VX + old VY) mod 256 and VF is 1 if
\* old VX + old VY >= 256, else 0.
C9_AddWithCarry ==
  IsAlu(4)
  => /\ result = "Ok"
     /\ get_v(chip8, nibble_x(hist[1].word)) = (OldVx + OldVy) % 256
     /\ get_v(chip8, 15) = (IF OldVx + OldVy >= 256 THEN 1 ELSE 0)

C9_Witness ==
  /\ IsAlu(4)
  /\ hist[1].word = 8 * 4096 + 0 * 256 + 1 * 16 + 4
  /\ OldVx = 255
  /\ OldVy = 1
  /\ get_v(chip8, 0) = 0
  /\ get_v(chip8, 15) = 1

\* C10: after 8XY5 with X # F, VX is (old VX - old VY) mod 256 and VF is 1 iff
\* old VX >= old VY; after 8XY7 with X # F, VX is (old VY - old VX) mod 256 and
\* VF is 1 iff old VY >= old VX. Equal operands give VF = 1.
C10_SubNoBorrow ==
  /\ IsAlu(5)
       => /\ result = "Ok"
          /\ get_v(chip8, nibble_x(hist[1].word)) = (OldVx - OldVy) % 256
          /\ get_v(chip8, 15) = (IF OldVx >= OldVy THEN 1 ELSE 0)
  /\ IsAlu(7)
       => /\ result = "Ok"
          /\ get_v(chip8, nibble_x(hist[1].word)) = (OldVy - OldVx) % 256
          /\ get_v(chip8, 15) = (IF OldVy >= OldVx THEN 1 ELSE 0)

C10_Witness ==
  /\ IsAlu(5)
  /\ hist[1].word = 8 * 4096 + 0 * 256 + 1 * 16 + 5
  /\ OldVx = 128
  /\ OldVy = 128
  /\ get_v(chip8, 0) = 0
  /\ get_v(chip8, 15) = 1

C10_WitnessReverse ==
  /\ IsAlu(7)
  /\ hist[1].word = 8 * 4096 + 0 * 256 + 1 * 16 + 7
  /\ OldVx = 1
  /\ OldVy = 0
  /\ get_v(chip8, 0) = 255
  /\ get_v(chip8, 15) = 0

\* the flag 8XYN is to leave in VF, the shifts taking their source as the
\* quirk setting says
ShiftSource == IF config.bit_shift_instructions_use_vy THEN OldVy ELSE OldVx

FlagOf(n4) ==
  CASE n4 = 4 -> (IF OldVx + OldVy >= 256 THEN 1 ELSE 0)
    [] n4 = 5 -> (IF OldVx >= OldVy THEN 1 ELSE 0)
    [] n4 = 7 -> (IF OldVy >= OldVx THEN 1 ELSE 0)
    [] n4 = 6 -> ShiftSource % 2
    [] n4 = 14 -> ShiftSource \div 128

\* C11: 8XY4, 8XY5, 8XY6, 8XY7 and 8XYE with X = F leave the flag in VF, not
\* the arithmetic or shift result: the flag is written after the result.
C11_FlagWrittenLast ==
  (/\ Ran
   /\ first_nibble(hist[1].word) = 8
   /\ fourth_nibble(hist[1].word) \in {4, 5, 6, 7, 14}
   /\ nibble_x(hist[1].word) = 15)
  => /\ result = "Ok"
     /\ get_v(chip8, 15) = FlagOf(fourth_nibble(hist[1].word))

\* C12: 8XY6 sets VF to the low bit of its source and VX to the source
\* shifted right, 8XYE sets VF to bit 7 of its source and VX to the source
\* shifted left mod 256; the source is VY when the shift quirk is enabled and
\* VX when it is disabled.
C12_ShiftSourceFollowsQuirk ==
  /\ IsAlu(6)
       => /\ result = "Ok"
          /\ get_v(chip8, 15) = ShiftSource % 2
          /\ get_v(chip8, nibble_x(hist[1].word)) = ShiftSource \div 2
  /\ IsAlu(14)
       => /\ result = "Ok"
          /\ get_v(chip8, 15) = ShiftSource \div 128
          /\ get_v(chip8, nibble_x(hist[1].word)) = (ShiftSource * 2) % 256

\* with the quirk disabled the shifts do take VX
C12_ShiftsTakeVxWhenDisabled ==
  ~config.bit_shift_instructions_use_vy => C12_ShiftSourceFollowsQuirk

\* C13: after BNNN, PC is (NNN + V0) & 0x0FFF, so never above 0xFFF, and the
\* default advance is not added.
C13_JumpOffsetMasked ==
  (Ran /\ first_nibble(hist[1].word) = 11)
  => /\ result = "Ok"
     /\ chip8.pc = (extract_12bit_address(hist[1].word) + get_v(hist[1].pre, 0)) % 4096

\* what the code does instead: the sum is taken as it is, without the advance
C13_JumpOffsetUnmasked ==
  (Ran /\ first_nibble(hist[1].word) = 11)
  => /\ result = "Ok"
     /\ chip8.pc = extract_12bit_address(hist[1].word) + get_v(hist[1].pre, 0)

IsDraw(w) == first_nibble(w) = 13

\* the N sprite bytes of the draw w on the machine e lie inside RAM
RowsInRam(w, e) == e.i_reg + fourth_nibble(w) <= RAM_SIZE

\* the pixels the set sprite bits of the draw w address on the machine e
Addressed(w, e) ==
  { pixel_index(get_v(e, nibble_x(w)), get_v(e, nibble_y(w)), ordinate, abscissa) :
      << ordinate, abscissa >> \in
        { p \in (0..(fourth_nibble(w) - 1)) \X (0..7) :
            sprite_bit(RamAt(e.ram, e.i_reg + p[1]), p[2]) } }

\* C14: the same DXYN run twice in a row with I, VX and VY unchanged, on a
\* sprite with a set bit, returns the framebuffer to what it was before the
\* first draw, and the second draw leaves VF = 1.
C14_DrawTwiceRestores ==
  (/\ RanTwo
   /\ IsDraw(hist[1].word)
   /\ hist[2].word = hist[1].word
   /\ hist[2].result = "Ok"
   /\ RowsInRam(hist[2].word, hist[2].pre)
   /\ Addressed(hist[2].word, hist[2].pre) # {}
   /\ hist[1].pre.i_reg = hist[2].pre.i_reg
   /\ Addressed(hist[1].word, hist[1].pre) = Addressed(hist[2].word, hist[2].pre))
  => /\ result = "Ok"
     /\ chip8.display = hist[2].pre.display
     /\ get_v(chip8, 15) = 1

\* C15: after DXYN every pixel a set sprite bit addresses is inverted and every
\* other pixel is unchanged, I and RAM are unchanged, and VF is 1 iff one of
\* the inverted pixels was lit before the draw.
C15_DrawInvertsAddressed ==
  (Ran /\ IsDraw(hist[1].word) /\ RowsInRam(hist[1].word, hist[1].pre))
  => /\ result = "Ok"
     /\ chip8.display =
          (hist[1].pre.display \ Addressed(hist[1].word, hist[1].pre))
            \cup (Addressed(hist[1].word, hist[1].pre) \ hist[1].pre.display)
     /\ chip8.i_reg = hist[1].pre.i_reg
     /\ chip8.ram = hist[1].pre.ram
     /\ get_v(chip8, 15) =
          (IF Addressed(hist[1].word, hist[1].pre) \cap hist[1].pre.display # {} THEN 1 ELSE 0)

\* what the code does instead: the framebuffer is never written, so a draw
\* leaves it as it was and finds no lit pixel to collide with
C15_DrawLeavesDisplay ==
  (Ran /\ IsDraw(hist[1].word) /\ RowsInRam(hist[1].word, hist[1].pre))
  => /\ result = "Ok"
     /\ chip8.display = hist[1].pre.display
     /\ chip8.display = {}
     /\ get_v(chip8, 15) = 0

IsKeyWait(w) == decode(w).op = "LdVxK"

\* C16: a cycle on FX0A at address A with no key down leaves PC = A and VX
\* unchanged; a cycle on FX0A that observes a key k leaves VX = k and
\* PC = A + 2.
C16_KeyWaitHoldsPc ==
  (Ran /\ IsKeyWait(hist[1].word))
  => IF hist[1].pre.keys = {}
       THEN /\ result = "Ok"
            /\ chip8.pc = hist[1].pre.pc
            /\ get_v(chip8, nibble_x(hist[1].word)) = OldVx
       ELSE /\ result = "Ok"
            /\ chip8.pc = hist[1].pre.pc + 2
            /\ get_v(chip8, nibble_x(hist[1].word)) \in hist[1].pre.keys

\* the half of C16 the code keeps: with a key down, VX takes the lowest key
\* that is down and PC moves to A + 2
C16_KeyTaken ==
  (Ran /\ IsKeyWait(hist[1].word) /\ hist[1].pre.keys # {})
  => /\ result = "Ok"
     /\ chip8.pc = hist[1].pre.pc + 2
     /\ get_v(chip8, nibble_x(hist[1].word)) = check_key_press(hist[1].pre)

\* C17: a cycle on FX0A with no key down hands control back to the frame
\* loop, so that the timers of the frame still tick: the wait never blocks
\* the loop.
C17_KeyWaitReturns ==
  (Ran /\ IsKeyWait(hist[1].word) /\ hist[1].pre.keys = {})
  => result \notin Dead

Max0(n) == IF n > 0 THEN n ELSE 0

\* C18: K frames after DT and ST were last written, DT is max(0, DT_old - K)
\* and ST is max(0, ST_old - K), whatever cycles_per_frame is.
C18_TimersCountFrames ==
  /\ chip8.dt = Max0(since.dt - since.frames)
  /\ chip8.st = Max0(since.st - since.frames)

\* two frames after DT was set to 2, at two cycles a frame
C18_Witness ==
  /\ config.cycles_per_frame = 2
  /\ since.dt = 2
  /\ since.frames = 2
  /\ chip8.dt = 0

\* the timers stay at 0 once they got there
C18_WitnessSaturated ==
  /\ since.st = 1
  /\ since.frames = 3
  /\ chip8.st = 0

\* FX15 and FY07 ran one after the other in the frame that is under way
TimerWriteThenRead ==
  /\ RanTwo
  /\ frame.stage = "cpu"
  /\ frame.slot >= 2
  /\ decode(hist[2].word).op = "LdDtVx"
  /\ hist[2].result = "Ok"
  /\ decode(hist[1].word).op = "LdVxDt"
  /\ result = "Ok"

\* C19: the timers tick only after all the cycles of a frame: FX15 with
\* VX = v followed by FY07 in the same frame leaves VY = v.
C19_TimerReadInFrame ==
  TimerWriteThenRead
  => get_v(chip8, nibble_x(hist[1].word)) = get_v(hist[2].pre, nibble_x(hist[2].word))

C19_Witness ==
  /\ TimerWriteThenRead
  /\ get_v(hist[2].pre, nibble_x(hist[2].word)) = 2
  /\ get_v(chip8, 1) = 2

\* the machine was reset and nothing has run since
WasReset == phase = "reset"

\* every field but RAM is as the reset should leave it
ResetClearsState ==
  /\ chip8.pc = START_ADDR
  /\ \A k \in 0..(NUM_REGS - 1) : get_v(chip8, k) = 0
  /\ chip8.i_reg = 0
  /\ chip8.sp = 0
  /\ \A k \in 1..STACK_SIZE : chip8.stack[k] = 0
  /\ chip8.dt = 0
  /\ chip8.st = 0
  /\ chip8.display = {}

\* C20: after reset from any reachable state RAM[0..80] holds the font table,
\* RAM[80..4096] is zero, PC is 0x200, and V, I, SP, the stack, DT, ST and the
\* framebuffer are zero.
C20_ResetLoadsFont ==
  WasReset
  => /\ \A k \in 0..(Len(HEX_DIGITS) - 1) : RamAt(chip8.ram, k) = HEX_DIGITS[k + 1]
     /\ \A k \in DOMAIN chip8.ram : k < Len(HEX_DIGITS)
     /\ ResetClearsState

\* what the code does: all of RAM is zero after reset, the font included
C20_ResetZeroesRam ==
  WasReset => chip8.ram = ZeroRam /\ ResetClearsState

\* reset of a machine that had the font loaded and had run instructions
C20_ResetReached ==
  /\ WasReset
  /\ hist # << >>
  /\ RamAt(hist[1].pre.ram, 0) = HEX_DIGITS[1]
  /\ chip8.ram = ZeroRam

IsFontAddr(w) == decode(w).op = "LdFVx"

\* FX29 on a hex digit ran, and F465 right after it
FontFetched ==
  /\ RanTwo
  /\ IsFontAddr(hist[2].word)
  /\ hist[2].result = "Ok"
  /\ get_v(hist[2].pre, nibble_x(hist[2].word)) < 16
  /\ hist[1].word = 15 * 4096 + 4 * 256 + 101

\* C21: with the font loaded, FX29 with VX = d, d a hex digit, sets I = 5 * d,
\* and an FX65 with X = 4 after it loads V0..V4 with the five bytes of glyph d.
C21_FontFetch ==
  FontFetched
  => /\ hist[1].pre.i_reg = 5 * get_v(hist[2].pre, nibble_x(hist[2].word))
     /\ result = "Ok"
     /\ \A k \in 0..4 :
          get_v(chip8, k)
            = HEX_DIGITS[5 * get_v(hist[2].pre, nibble_x(hist[2].word)) + k + 1]

\* glyph A: I = 50 and V0..V4 = F0, 90, F0, 90, 90
C21_Witness ==
  /\ FontFetched
  /\ get_v(hist[2].pre, nibble_x(hist[2].word)) = 10
  /\ hist[1].pre.i_reg = 50
  /\ << get_v(chip8, 0), get_v(chip8, 1), get_v(chip8, 2), get_v(chip8, 3), get_v(chip8, 4) >>
       = << 240, 144, 240, 144, 144 >>

\* C22: for every VX, FX29 sets I = 5 * (VX & 0x0F): I is the start of a glyph
\* in 0..75 even when the high nibble of VX is not zero.
C22_FontAddrMasked ==
  (Ran /\ IsFontAddr(hist[1].word) /\ result = "Ok")
  => /\ chip8.i_reg = 5 * (OldVx % 16)
     /\ chip8.i_reg <= 75

\* what the code computes: 5 * VX, the high nibble included
C22_FontAddrUnmasked ==
  (Ran /\ IsFontAddr(hist[1].word) /\ result = "Ok")
  => chip8.i_reg = 5 * OldVx

\* FX33 ran in Instruction::execute with room for three digits at I
BcdStored ==
  /\ Ran
  /\ decode(hist[1].word).op = "LdBVx"
  /\ executor = "instruction"
  /\ hist[1].pre.i_reg <= RAM_SIZE - 3

BcdDigits ==
  << RamAt(chip8.ram, hist[1].pre.i_reg),
     RamAt(chip8.ram, hist[1].pre.i_reg + 1),
     RamAt(chip8.ram, hist[1].pre.i_reg + 2) >>

\* C23: for every VX and I <= 4093, FX33 writes VX / 100, (VX / 10) mod 10 and
\* VX mod 10 to RAM[I], RAM[I+1], RAM[I+2]: decimal digits that add up to VX
\* and agree with convert_decimal_to_bcd_tuple; every other RAM byte, I and the
\* registers are unchanged.
C23_BcdDigits ==
  BcdStored
  => /\ result = "Ok"
     /\ BcdDigits = << OldVx \div 100, (OldVx \div 10) % 10, OldVx % 10 >>
     /\ 100 * BcdDigits[1] + 10 * BcdDigits[2] + BcdDigits[3] = OldVx
     /\ \A k \in 1..3 : BcdDigits[k] <= 9
     /\ BcdDigits = convert_decimal_to_bcd_tuple(OldVx)
     /\ \A a \in ((DOMAIN chip8.ram) \cup (DOMAIN hist[1].pre.ram))
                   \ (hist[1].pre.i_reg .. (hist[1].pre.i_reg + 2)) :
          RamAt(chip8.ram, a) = RamAt(hist[1].pre.ram, a)
     /\ chip8.i_reg = hist[1].pre.i_reg
     /\ chip8.v_reg = hist[1].pre.v_reg

\* 254 at 0x300 gives 2, 5, 4
C23_Witness ==
  /\ BcdStored
  /\ OldVx = 254
  /\ hist[1].pre.i_reg = 768
  /\ BcdDigits = << 2, 5, 4 >>

\* the last address the claim covers, over the bytes at the end of RAM
C23_WitnessLast ==
  /\ BcdStored
  /\ OldVx = 109
  /\ hist[1].pre.i_reg = RAM_SIZE - 3
  /\ BcdDigits = << 1, 0, 9 >>

IsStore(w) == decode(w).op = "LdIVx"

IsLoad(w) == decode(w).op = "LdVxI"

\* FX55 or FX65 ran in Instruction::execute
StoreOrLoadRan ==
  /\ Ran
  /\ executor = "instruction"
  /\ IsStore(hist[1].word) \/ IsLoad(hist[1].word)

\* the addresses I .. I + X of that instruction
StoreRange == hist[1].pre.i_reg .. (hist[1].pre.i_reg + nibble_x(hist[1].word))

StoreInRam == hist[1].pre.i_reg + nibble_x(hist[1].word) < RAM_SIZE

\* V0..VX and RAM[I..I+X] hold the same bytes, taken from the side that was read
Copied ==
  /\ result = "Ok"
  /\ \A k \in 0..nibble_x(hist[1].word) :
       IF IsStore(hist[1].word)
         THEN RamAt(chip8.ram, hist[1].pre.i_reg + k) = get_v(hist[1].pre, k)
         ELSE get_v(chip8, k) = RamAt(hist[1].pre.ram, hist[1].pre.i_reg + k)

\* C24: FX55 copies V0..VX to RAM[I..I+X] and FX65 copies RAM[I..I+X] to
\* V0..VX; with store_read_instructions_change_i enabled I is old I + X + 1
\* afterwards, with it disabled I is unchanged.
C24_StoreLoadAdvanceI ==
  (StoreOrLoadRan /\ StoreInRam)
  => /\ Copied
     /\ chip8.i_reg =
          (IF config.store_read_instructions_change_i
             THEN hist[1].pre.i_reg + nibble_x(hist[1].word) + 1
             ELSE hist[1].pre.i_reg)

\* what the code does: the copy, and I unchanged whatever the setting is
C24_StoreLoadKeepI ==
  (StoreOrLoadRan /\ StoreInRam)
  => /\ Copied
     /\ chip8.i_reg = hist[1].pre.i_reg

\* C29: a cycle that would access RAM at an address >= 4096 (here FX55 writing
\* or FX65 reading at I + k >= 4096) ends in an error value: it performs no
\* out-of-bounds access and does not abort the interpreter.
C29_OutOfRangeIsError ==
  (StoreOrLoadRan /\ ~StoreInRam)
  => /\ result # "Ok"
     /\ result \notin Dead

\* the half the code keeps: the writing instruction returns an error value
C29_StoreOutOfRangeIsError ==
  (StoreOrLoadRan /\ ~StoreInRam /\ IsStore(hist[1].word))
  => result = "IndexOutOfBounds"

\* init_ram has just returned for a file that could be read
RomLoadReturned == phase \in {"loaded", "mc_loaded"} /\ rom.readable

FontInRam ==
  \A k \in 0..(Len(HEX_DIGITS) - 1) : RamAt(chip8.ram, k) = HEX_DIGITS[k + 1]

\* C25: after a successful load of a ROM of length L <= 3584, RAM[0x200 + k]
\* is ROM byte k for every k < L, RAM[0..80] holds the font table, and the
\* instruction fetched at PC 0x200 is the ROM's first two bytes, big-endian.
C25_RomCopied ==
  (RomLoadReturned /\ result = "Ok")
  => /\ Len(rom.bytes) <= ROM_MAX
     /\ \A k \in 0..(Len(rom.bytes) - 1) :
          RamAt(chip8.ram, START_ADDR + k) = rom.bytes[k + 1]
     /\ FontInRam
     /\ chip8.pc = START_ADDR
     /\ Len(rom.bytes) >= 2
          => fetch_word(chip8)
               = combine_bytes_to_16bit_instruction(rom.bytes[1], rom.bytes[2])

\* what the code does: the font is loaded and the rest of RAM is left as it was
C25_RomNotCopied ==
  (RomLoadReturned /\ result = "Ok")
  => /\ Len(rom.bytes) <= ROM_MAX
     /\ FontInRam
     /\ \A a \in ((DOMAIN chip8.ram) \cup (DOMAIN hist[1].pre.ram)) :
          a >= Len(HEX_DIGITS) => RamAt(chip8.ram, a) = RamAt(hist[1].pre.ram, a)

\* C26: loading a ROM fails, with an error returned to the caller, iff the ROM
\* is longer than 3584 bytes, and a failed load leaves RAM unchanged.
C26_RomTooLargeIsError ==
  RomLoadReturned
  => /\ result # "Ok" <=> Len(rom.bytes) > ROM_MAX
     /\ result \notin Dead
     /\ result # "Ok" => chip8.ram = hist[1].pre.ram

\* the claim as Emulator::init_ram keeps it
C26_EmulatorLoader ==
  (RomLoadReturned /\ phase = "loaded")
  => /\ result # "Ok" <=> Len(rom.bytes) > ROM_MAX
     /\ result \notin Dead
     /\ result # "Ok" => chip8.ram = hist[1].pre.ram

\* a word 0x0NNN that is none of 0x0000, 0x00E0, 0x00EE
IsUnknownSys(w) == first_nibble(w) = 0 /\ w \notin {0, 224, 238}

\* C27: a cycle on a word 0x0NNN other than 0x0000, 0x00E0 and 0x00EE gives
\* the unknown-opcode error and changes nothing, PC included; a cycle on
\* 0x0000 only advances PC by 2.
C27_UnknownSysFaults ==
  /\ (Ran /\ IsUnknownSys(hist[1].word))
       => result = "Unsupported" /\ chip8 = hist[1].pre
  /\ (Ran /\ hist[1].word = 0)
       => result = "Ok" /\ chip8 = [hist[1].pre EXCEPT !.pc = hist[1].pre.pc + 2]

\* 0x0123 ran inside a subroutine and left the machine as it was
C27_Witness ==
  /\ Ran
  /\ hist[1].word = 291
  /\ hist[1].pre.sp > 0
  /\ result = "Unsupported"
  /\ chip8.pc = hist[1].pre.pc

C27_WitnessNop ==
  /\ Ran
  /\ hist[1].word = 0
  /\ chip8.pc = hist[1].pre.pc + 2

Even(n) == n % 2 = 0

\* C28: for a program that starts at 0x200 and uses only standard opcodes, PC
\* is even in every state between instructions: after every completed cycle,
\* jumps, calls, returns, skips, BNNN and a waiting FX0A included.
C28_PcEven == Even(chip8.pc)

\* the word w, run on the machine e, names an odd address to go to
OddTarget(w, e) ==
  \/ decode(w).op \in {"Jmp", "Call"} /\ ~Even(decode(w).addr)
  \/ decode(w).op = "JpV0" /\ ~Even(decode(w).addr + get_v(e, 0))

AlignedMachine(e) == Even(e.pc) /\ \A k \in 1..STACK_SIZE : Even(e.stack[k])

\* C28 as the code keeps it: a cycle that starts with PC and the stack entries
\* even, on a word that names no odd address, ends with them even.
C28_PcStaysEven ==
  (Ran /\ AlignedMachine(hist[1].pre) /\ ~OddTarget(hist[1].word, hist[1].pre))
  => AlignedMachine(chip8)

\* a call to an even address and the return from it
C28_Witness ==
  /\ RanTwo
  /\ hist[2].word = 2 * 4096 + 518
  /\ hist[1].word = 238
  /\ AlignedMachine(hist[2].pre)
  /\ result = "Ok"
  /\ chip8.pc = START_ADDR + 2

IsKeySkip(w) == decode(w).op \in {"SkpVx", "SknpVx"}

\* EX9E skipped iff the key was down, EXA1 iff it was not
KeySkipDone(key) ==
  /\ result = "Ok"
  /\ chip8.pc = hist[1].pre.pc
       + (IF (decode(hist[1].word).op = "SkpVx") <=> (key \in hist[1].pre.keys)
            THEN 4 ELSE 2)

\* C30: for every VX, EX9E skips the next instruction iff key VX & 0x0F is down
\* and EXA1 skips iff it is not; a VX above 0x0F causes no out-of-range keypad
\* access, and exactly one of the two skips in a given state.
C30_KeySkipMasked ==
  (Ran /\ IsKeySkip(hist[1].word)) => KeySkipDone(OldVx % 16)

\* the claim for the key codes the keypad has
C30_KeySkipInRange ==
  (Ran /\ IsKeySkip(hist[1].word) /\ OldVx < 16) => KeySkipDone(OldVx)

\* C31: a string converted to an Environment and formatted back is the same
\* string, for every string: "production", "development" and "test" become
\* their variants, any other string s becomes Environment_Any(s), which displays as s.
C31_EnvironmentRoundTrip ==
  /\ proc.made \in {"into", "from_env", "shown"}
       => proc.env = (CASE proc.input = "production" -> Production
                        [] proc.input = "development" -> Development
                        [] proc.input = "test" -> Test
                        [] OTHER -> Environment_Any(proc.input))
  /\ proc.made = "shown" => proc.shown = proc.input

\* "production" went to Production and came back
C31_Witness ==
  /\ proc.made = "shown"
  /\ proc.input = "production"
  /\ proc.env = Production
  /\ proc.shown = "production"

C31_WitnessAny ==
  /\ proc.made = "shown"
  /\ proc.env = Environment_Any("custom")
  /\ proc.shown = "custom"

\* from_env has just run, and the call before it set or removed "environment"
FromEnvAfter(last) == proc.made = "from_env" /\ proc.set = last

\* C32: from_env returns the environment named by the process variable
\* "environment": Production after it is set to "production", Environment_Any("custom")
\* after it is set to "custom", Development after it is removed.
C32_FromEnvReadsVariable ==
  /\ FromEnvAfter(<< "environment", "production" >>) => proc.env = Production
  /\ FromEnvAfter(<< "environment", "custom" >>) => proc.env = Environment_Any("custom")
  /\ FromEnvAfter(<< "environment" >>) => proc.env = Development

\* the claim for the name from_env reads
C32_FromEnvReadsUpperCase ==
  /\ FromEnvAfter(<< "ENVIRONMENT", "production" >>) => proc.env = Production
  /\ FromEnvAfter(<< "ENVIRONMENT", "custom" >>) => proc.env = Environment_Any("custom")

\* the instruction of the last cycle, and the machine it ran on
LastOp == decode(hist[1].word).op

LastPre == hist[1].pre

\* the condition of the skip instruction w holds on the machine e
SkipTaken(w, e) ==
  \/ decode(w).op = "SeVx" /\ get_v(e, nibble_x(w)) = second_byte(w)
  \/ decode(w).op = "SneVx" /\ get_v(e, nibble_x(w)) # second_byte(w)
  \/ decode(w).op = "SeVxVy" /\ get_v(e, nibble_x(w)) = get_v(e, nibble_y(w))
  \/ decode(w).op = "SneVxVy" /\ get_v(e, nibble_x(w)) # get_v(e, nibble_y(w))

\* PC after a cycle, with rets and waits standing for what 00EE and a waiting
\* FX0A leave
PcRule(rets, waits) ==
  (Ran /\ result = "Ok")
  => chip8.pc =
       (CASE LastOp \in {"Jmp", "Call"} -> decode(hist[1].word).addr
          [] LastOp = "JpV0" -> decode(hist[1].word).addr + get_v(LastPre, 0)
          [] LastOp = "Ret" -> rets
          [] LastOp = "LdVxK" /\ LastPre.keys = {} -> waits
          [] SkipTaken(hist[1].word, LastPre) -> LastPre.pc + 4
          [] OTHER -> LastPre.pc + 2)

\* C33: 1NNN, 2NNN, BNNN and 00EE set PC directly with no extra +2, a skip
\* whose condition holds advances PC by 4, a waiting FX0A leaves PC unchanged,
\* every other instruction that succeeds advances PC by 2.
C33_PcPerCycle ==
  PcRule(IF LastPre.sp > 0 THEN LastPre.stack[LastPre.sp] ELSE 0, LastPre.pc)

\* the rule the code follows: 00EE leaves the popped entry plus 2 and a
\* waiting FX0A leaves PC two below the instruction
C33_PcPerCycleCoded ==
  PcRule(IF LastPre.sp > 0 THEN LastPre.stack[LastPre.sp] + 2 ELSE 0, LastPre.pc - 2)

\* the word matches one of the 35 listed opcode patterns
Listed(w) ==
  LET n1 == first_nibble(w)
      n4 == fourth_nibble(w)
      byte == second_byte(w)
  IN CASE n1 = 0 -> w \in {0, 224, 238}
       [] n1 \in {5, 9} -> n4 = 0
       [] n1 = 8 -> n4 \in (0..7) \cup {14}
       [] n1 = 14 -> byte \in {158, 161}
       [] n1 = 15 -> byte \in {7, 10, 21, 24, 30, 41, 51, 85, 101}
       [] OTHER -> TRUE

\* C34: a word outside the 35 listed patterns yields an unknown-opcode error
\* and is not executed as some other instruction.
C34_UnlistedRejected ==
  (Ran /\ ~Listed(hist[1].word)) => result = "Unsupported"

\* the unlisted words the dispatcher does reject: 8XYN, EXNN and FXNN outside
\* their lists
C34_UnlistedRejectedCoded ==
  (Ran /\ ~Listed(hist[1].word) /\ first_nibble(hist[1].word) \notin {5, 9})
    => (result = "Unsupported" /\ chip8 = [LastPre EXCEPT !.pc = chip8.pc])

\* 5XYN and 9XYN with N # 0 run as 5XY0 and 9XY0
C34_LastNibbleIgnored ==
  (Ran /\ first_nibble(hist[1].word) \in {5, 9})
    => (result = "Ok" /\ LastOp \in {"SeVxVy", "SneVxVy"}
        /\ chip8.pc \in {LastPre.pc + 2, LastPre.pc + 4})

\* 0x5011 ran with V0 = V1 and skipped
C34_WitnessSkipped ==
  /\ Ran
  /\ hist[1].word = 5 * 4096 + 16 + 1
  /\ result = "Ok"
  /\ chip8.pc = LastPre.pc + 4

\* the last cycle returned an executor error
Faulted == hist # << >> /\ result \notin {"Ok"} \cup Dead

\* everything of the machine but the timers and the sampled keypad
CpuPart(e) == << e.pc, e.v_reg, e.i_reg, e.ram, e.stack, e.sp, e.display >>

\* C35: once a cycle has returned an executor error, PC equals the address of
\* the faulting instruction and no later step changes PC, the registers, RAM,
\* the stack or the framebuffer; only DT and ST go on counting down.
C35_HaltedAfterError ==
  /\ [](Faulted => chip8.pc = LastPre.pc)
  /\ [][Faulted => (/\ CpuPart(chip8') = CpuPart(chip8)
                    /\ chip8'.dt \in {chip8.dt, Max0(chip8.dt - 1)}
                    /\ chip8'.st \in {chip8.st, Max0(chip8.st - 1)}
                    /\ result' = result)]_vars

\* RET failed on the empty stack with DT = 2, and DT has run down to 0 since
C35_Witness ==
  /\ Faulted
  /\ hist[1].word = RetWord
  /\ LastPre.dt = 2
  /\ chip8.dt = 0
  /\ chip8.pc = START_ADDR + 2

\* sprite bit (row, col) of a draw at (vx, vy), wrapped into the 64 x 32 screen
WrappedPixel(vx, vy, row, col) == ((vx + col) % 64) + 64 * ((vy + row) % 32)

\* the pixels the set sprite bits of the draw w reach under the wrap policy
WrappedPixels(w, e) ==
  { WrappedPixel(get_v(e, nibble_x(w)), get_v(e, nibble_y(w)), p[1], p[2]) :
      p \in { q \in (0..(fourth_nibble(w) - 1)) \X (0..7) :
                sprite_bit(RamAt(e.ram, e.i_reg + q[1]), q[2]) } }

\* C36: DXYN looks up only framebuffer indices in [0, 2048): sprite bit
\* (row, col) lands on pixel ((VX + col) mod 64, (VY + row) mod 32), whatever
\* VX and VY hold, so every row and column wraps at the right and bottom edges.
C36_DrawIndicesWrap ==
  (Ran /\ IsDraw(hist[1].word) /\ RowsInRam(hist[1].word, LastPre))
  => /\ result = "Ok"
     /\ Addressed(hist[1].word, LastPre) = WrappedPixels(hist[1].word, LastPre)
     /\ Addressed(hist[1].word, LastPre) \subseteq 0..2047

\* the glyph 0 drawn at (255, 255): its first row ends the last line of the
\* screen and its second row continues on the first line
C36_Witness ==
  /\ Ran
  /\ IsDraw(hist[1].word)
  /\ result = "Ok"
  /\ get_v(LastPre, nibble_x(hist[1].word)) = 255
  /\ get_v(LastPre, nibble_y(hist[1].word)) = 255
  /\ {2, 2047} \subseteq Addressed(hist[1].word, LastPre)

\* the CPU is waiting in FX0A: inside wait_for_key's loop, or back from an
\* FX0A that found no key
WaitingForKey ==
  /\ hist # << >>
  /\ IsKeyWait(hist[1].word)
  /\ LastPre.keys = {}
  /\ result \in {"Ok", "Hang"}

\* an FX0A has just stored the lowest key that is down and moved PC past itself
WaitEnded ==
  /\ Ran
  /\ IsKeyWait(hist[1].word)
  /\ result = "Ok"
  /\ LastPre.keys # {}
  /\ get_v(chip8, nibble_x(hist[1].word)) = check_key_press(LastPre)
  /\ \A k \in LastPre.keys : get_v(chip8, nibble_x(hist[1].word)) <= k
  /\ chip8.pc = LastPre.pc + 2

\* C37: a CPU waiting in FX0A, once a key is pressed and held and cycles go on
\* being issued, eventually leaves the wait with VX holding the lowest pressed
\* key and PC past the FX0A.
C37_KeyWaitEnds == WaitingForKey ~> WaitEnded

\* what the code keeps: with Instruction::execute and a harmless word before
\* the FX0A, the wait ends
C37_KeyWaitEndsAfterNop ==
  (WaitingForKey /\ executor = "instruction" /\ LastPre.pc = START_ADDR) ~> WaitEnded

IsLogic(w) == first_nibble(w) = 8 /\ fourth_nibble(w) \in 0..3

\* what 8XY0..8XY3 leave in VX, from VX = a and VY = b
LogicResult(n4, a, b) ==
  CASE n4 = 0 -> b
    [] n4 = 1 -> BitOr(a, b)
    [] n4 = 2 -> BitAnd(a, b)
    [] OTHER -> BitXor(a, b)

\* every register but VX is as it was before the last cycle
OthersKept ==
  \A k \in 0..(NUM_REGS - 1) :
    k # nibble_x(hist[1].word) => get_v(chip8, k) = get_v(LastPre, k)

\* VX after the last cycle is what the instruction computes from the old VX
\* and VY, and no other register changed
LogicDone ==
  /\ result = "Ok"
  /\ get_v(chip8, nibble_x(hist[1].word)) =
       LogicResult(fourth_nibble(hist[1].word), OldVx, OldVy)
  /\ OthersKept

\* C38: 8XY0 sets VX to VY, and 8XY1, 8XY2, 8XY3 set VX to VX | VY, VX & VY,
\* VX ^ VY, for all X and Y; VF and every other register are left unchanged.
C38_LogicOps == (Ran /\ IsLogic(hist[1].word)) => LogicDone

\* what the code keeps: the three logical instructions under both executors and
\* 8XY0 under Instruction::execute
C38_LogicOpsCoded ==
  (Ran /\ IsLogic(hist[1].word)
     /\ (fourth_nibble(hist[1].word) # 0 \/ executor = "instruction"))
  => LogicDone

\* load_vx_with_vy copies VX onto itself
C38_ControllerCopiesVx ==
  (Ran /\ IsLogic(hist[1].word) /\ fourth_nibble(hist[1].word) = 0 /\ executor = "controller")
  => (result = "Ok" /\ chip8.v_reg = LastPre.v_reg)

\* every stack entry at index SP or above is zero
ZeroAboveSp(e) == \A k \in 0..(STACK_SIZE - 1) : k >= e.sp => e.stack[k + 1] = 0

\* C39: in every reachable state the stack entries at indices >= SP are zero:
\* RET zeroes the slot it pops and CALL writes only the slot at the old SP, so
\* the stack is all zero whenever SP is back at 0.
C39_StackZeroAboveSp ==
  /\ ZeroAboveSp(chip8)
  /\ (Ran /\ IsCall(hist[1].word) /\ result = "Ok")
       => \A k \in 0..(STACK_SIZE - 1) :
            k # LastPre.sp => chip8.stack[k + 1] = LastPre.stack[k + 1]
  /\ (Ran /\ hist[1].word = RetWord /\ result = "Ok")
       => chip8.stack = [LastPre.stack EXCEPT ![LastPre.sp] = 0]

\* a CALL from the empty stack and the RET that follows it have run: SP is
\* back at 0 and the stack is all zero
C39_Witness ==
  /\ RanTwo
  /\ IsCall(hist[2].word)
  /\ hist[2].pre.sp = 0
  /\ hist[2].result = "Ok"
  /\ hist[1].word = RetWord
  /\ result = "Ok"
  /\ LastPre.stack[1] # 0
  /\ chip8.sp = 0
  /\ \A k \in 1..STACK_SIZE : chip8.stack[k] = 0

\* a RET from a full stack has run and left only the top slot zero
C39_WitnessDeep ==
  /\ Ran
  /\ hist[1].word = RetWord
  /\ LastPre.sp = STACK_SIZE
  /\ result = "Ok"
  /\ chip8.sp = STACK_SIZE - 1
  /\ chip8.stack[STACK_SIZE] = 0
  /\ chip8.stack[STACK_SIZE - 1] # 0


====
